---- MODULE Spec2Model ----
(***************************************************************************)
(* Interactive skeleton editor of SmartCamera                              *)
(* (src/components/organisms/EditorCanvas.tsx, src/utils/geometryUtils.ts) *)
(* as a state machine over the editable graph of points, connections and   *)
(* angles.                                                                 *)
(*                                                                         *)
(* Coordinates.  Positions on the canvas are whole pixels.  A normalized   *)
(* coordinate of an EditorPoint is the rational k / renderW (k / renderH); *)
(* the model keeps its numerator k, so that                                *)
(*     normX = (x - offsetX) / renderW      is kept as   x - offsetX       *)
(*     offsetX + normX * renderW            is           offsetX + k       *)
(* and 0 <= normX <= 1 is 0 <= k <= renderW.                               *)
(***************************************************************************)
EXTENDS Integers, Sequences, FiniteSets, TLC

VARIABLES
  data,               \* prop: the AI result's skeleton (keypoint name -> point)
  activeTool,         \* prop: the active EditorTool
  editorData,         \* state: [points, connections, angles]
  draggingPointId,    \* state: id of the point being dragged, or null
  connectingStartId,  \* state: pending start of a connection, or null
  selectedElementIds, \* state: connection ids selected by the ANGLE tool
  generated,          \* number of ids generateId has returned so far
  call                \* the call of the scoring engine in progress, if any

vars == <<data, activeTool, editorData, draggingPointId,
          connectingStartId, selectedElementIds, generated, call>>

null == "null"

(***************************************************************************)
(* Bounds of the model.                                                    *)
(***************************************************************************)
\* Number of ids generated after the graph was seeded (points, connections
\* and angles the user creates) within which the editor is explored.
MaxNewIds == 2

(***************************************************************************)
(* Types and constants of the program.                                     *)
(***************************************************************************)
EditorTool == {"MOVE", "ADD_POINT", "CONNECT", "ANGLE", "DELETE"}

DEFAULT_CONNECTIONS ==
  << <<"leftShoulder", "rightShoulder">>,
     <<"leftShoulder", "leftHip">>,
     <<"rightShoulder", "rightHip">>,
     <<"leftHip", "rightHip">>,
     <<"leftShoulder", "leftElbow">>,
     <<"leftElbow", "leftWrist">>,
     <<"rightShoulder", "rightElbow">>,
     <<"rightElbow", "rightWrist">>,
     <<"leftHip", "leftKnee">>,
     <<"leftKnee", "leftAnkle">>,
     <<"rightHip", "rightKnee">>,
     <<"rightKnee", "rightAnkle">> >>

FACE_PARTS == {"nose", "leftEye", "rightEye", "leftEar", "rightEar"}

\* Tolerances handleStart passes to the three hit tests, and the radius at
\* which an angle's label sits from its center.
PointTolerance == 45
LineTolerance == 30
AngleTolerance == 35
textRadius == 45

(***************************************************************************)
(* The canvas, the image and the layout computed from them.                *)
(***************************************************************************)
canvasSize == [width |-> 160, height |-> 120]
imgElement == [width |-> 100, height |-> 120]

\* Layout effect: letterbox or pillarbox, keeping the image's aspect ratio.
\* imgAspect < canvasAspect is compared cross-multiplied.
calcLayout(img, width, height) ==
  IF img.width * height < width * img.height
    THEN LET renderW == (height * img.width) \div img.height
         IN [renderW |-> renderW, renderH |-> height,
             offsetX |-> (width - renderW) \div 2, offsetY |-> 0]
    ELSE LET renderH == (width * img.height) \div img.width
         IN [renderW |-> width, renderH |-> renderH,
             offsetX |-> 0, offsetY |-> (height - renderH) \div 2]

layout == calcLayout(imgElement, canvasSize.width, canvasSize.height)

(***************************************************************************)
(* Inputs: the skeleton handed to the editor and the cursor positions.     *)
(***************************************************************************)
\* Keypoints of the detected skeleton, in iteration order, with their
\* normalized positions (numerators over renderW, renderH).
KeypointOrder == <<"nose", "leftShoulder", "rightShoulder", "leftHip">>

KeypointPos ==
  [k \in {"nose", "leftShoulder", "rightShoulder", "leftHip"} |->
     CASE k = "nose"          -> [x |-> 50,  y |-> 0]
       [] k = "leftShoulder"  -> [x |-> 0,   y |-> 10]
       [] k = "rightShoulder" -> [x |-> 100, y |-> 10]
       [] k = "leftHip"       -> [x |-> 0,   y |-> 110]]

\* A skeleton is the set of keypoints detected with confidence.
Skeletons ==
  { {"nose", "leftShoulder", "rightShoulder", "leftHip"},
    {"nose", "leftShoulder"} }

\* Cursor positions of pointer-down events, in canvas pixels.
DownPos ==
  { [x |-> 65,  y |-> 34],    \* near leftShoulder and the label of its angle
    [x |-> 80,  y |-> 10],    \* on the segment leftShoulder - rightShoulder
    [x |-> 150, y |-> 10],    \* near rightShoulder, right of the image
    [x |-> 30,  y |-> 110],   \* on leftHip
    [x |-> 80,  y |-> 60] }   \* halfway between rightShoulder and leftHip

\* Cursor positions of pointer-move events.
MovePos ==
  { [x |-> 150, y |-> 30] }   \* right of the image

(***************************************************************************)
(* generateId: a random 9-character string; modelled as a string that was  *)
(* not returned before, the n-th call returning the n-th name.             *)
(***************************************************************************)
GenNames == <<"g1", "g2", "g3", "g4", "g5", "g6", "g7", "g8", "g9", "g10",
              "g11", "g12", "g13", "g14", "g15", "g16">>

generateId(n) == GenNames[n + 1]

Ids(seq) == {seq[i].id : i \in 1..Len(seq)}

(***************************************************************************)
(* geometryUtils.ts                                                        *)
(***************************************************************************)
distSq(x1, y1, x2, y2) == (x1 - x2) * (x1 - x2) + (y1 - y2) * (y1 - y2)

\* getDistance(p1, p2) < tolerance, compared on the squares.
getDistanceLt(p1, p2, tolerance) ==
  distSq(p1.x, p1.y, p2.x, p2.y) < tolerance * tolerance

\* getDistanceToSegment(p, v, w) < tolerance, compared on the squares:
\* for 0 < t < 1 the squared distance is |p-v|^2 - dot^2 / l2.
getDistanceToSegmentLt(p, v, w, tolerance) ==
  LET l2  == distSq(v.x, v.y, w.x, w.y)
      dot == (p.x - v.x) * (w.x - v.x) + (p.y - v.y) * (w.y - v.y)
  IN IF l2 = 0 THEN getDistanceLt(p, v, tolerance)
     ELSE IF dot <= 0 THEN getDistanceLt(p, v, tolerance)
     ELSE IF dot >= l2 THEN getDistanceLt(p, w, tolerance)
     ELSE distSq(p.x, p.y, v.x, v.y) * l2 - dot * dot < tolerance * tolerance * l2

project(normP, lay) ==
  [x |-> lay.offsetX + normP.x, y |-> lay.offsetY + normP.y]

\* points.find((p) => p.id === id)
HasPoint(points, id) == \E i \in 1..Len(points) : points[i].id = id
findPoint(points, id) ==
  points[CHOOSE i \in 1..Len(points) :
           points[i].id = id /\ \A j \in 1..(i - 1) : points[j].id # id]

First(S) == CHOOSE i \in S : \A j \in S : i <= j

hitTestPoint(x, y, points, lay, tolerance) ==
  LET hits == {i \in 1..Len(points) :
                 getDistanceLt([x |-> x, y |-> y], project(points[i], lay), tolerance)}
  IN IF hits = {} THEN null ELSE points[First(hits)].id

hitTestConnection(x, y, connections, points, lay, tolerance) ==
  LET hits == {i \in 1..Len(connections) :
                 /\ HasPoint(points, connections[i].from)
                 /\ HasPoint(points, connections[i].to)
                 /\ getDistanceToSegmentLt(
                      [x |-> x, y |-> y],
                      project(findPoint(points, connections[i].from), lay),
                      project(findPoint(points, connections[i].to), lay),
                      tolerance)}
  IN IF hits = {} THEN null ELSE connections[First(hits)].id

(***************************************************************************)
(* hitTestAngle works in floating point: atan2 of the two arms, the middle *)
(* of the shorter arc between them, and the label at textRadius from the   *)
(* center in that direction.  The model computes the same label position   *)
(* in fixed point, to 1/Scale of a pixel: with diff the arc from the first *)
(* arm a to the second arm b, normalized to (-180, 180],                   *)
(*     cos(diff) = a.b / (|a| |b|),  the sign of sin(diff) is that of a x b,*)
(*     cos(diff/2) = sqrt((1 + cos(diff)) / 2) >= 0,                       *)
(*     sin(diff/2) = +-sqrt((1 - cos(diff)) / 2),                          *)
(* and the label direction is a / |a| turned by diff/2.                    *)
(***************************************************************************)
Scale == 100

RECURSIVE NewtonSqrt(_, _)
NewtonSqrt(n, x) ==
  LET y == (x + n \div x) \div 2
  IN IF y >= x THEN x ELSE NewtonSqrt(n, y)

\* floor(sqrt(n))
ISqrt(n) == IF n = 0 THEN 0 ELSE NewtonSqrt(n, n)

\* sqrt(n) * Scale, for n > 0
SqrtScaled(n) ==
  LET r == ISqrt(n)
  IN r * Scale + ((n - r * r) * Scale) \div (2 * r)

Clamp(lo, v, hi) == IF v < lo THEN lo ELSE IF v > hi THEN hi ELSE v

\* Math.atan2(0, 0) is 0, the direction of (1, 0).
ArmDir(from, to) ==
  IF to.x = from.x /\ to.y = from.y
    THEN [x |-> 1, y |-> 0]
    ELSE [x |-> to.x - from.x, y |-> to.y - from.y]

\* textRadius * (cos(midAngle), sin(midAngle)), in 1/Scale of a pixel.
labelOffset(sc, s1, s2) ==
  LET a     == ArmDir(sc, s1)
      b     == ArmDir(sc, s2)
      aa    == a.x * a.x + a.y * a.y
      bb    == b.x * b.x + b.y * b.y
      dot   == a.x * b.x + a.y * b.y
      cross == a.x * b.y - a.y * b.x
      one   == Scale * Scale
      cosd  == Clamp(-one, (dot * one) \div ISqrt(aa * bb), one)
      ch    == ISqrt(((one + cosd) * one) \div 2)
      shAbs == ISqrt(((one - cosd) * one) \div 2)
      sh    == IF cross < 0 THEN -shAbs ELSE shAbs
      lenA  == SqrtScaled(aa)
      mx    == ((a.x * ch - a.y * sh) * Scale) \div lenA
      my    == ((a.x * sh + a.y * ch) * Scale) \div lenA
  IN [x |-> (textRadius * mx) \div Scale, y |-> (textRadius * my) \div Scale]

hitTestAngle(x, y, angles, points, lay, tolerance) ==
  LET hits == {i \in 1..Len(angles) :
                 /\ HasPoint(points, angles[i].p1)
                 /\ HasPoint(points, angles[i].center)
                 /\ HasPoint(points, angles[i].p2)
                 /\ LET sc == project(findPoint(points, angles[i].center), lay)
                        s1 == project(findPoint(points, angles[i].p1), lay)
                        s2 == project(findPoint(points, angles[i].p2), lay)
                        t  == labelOffset(sc, s1, s2)
                    IN distSq((x - sc.x) * Scale, (y - sc.y) * Scale, t.x, t.y)
                         < tolerance * tolerance * Scale * Scale}
  IN IF hits = {} THEN null ELSE angles[First(hits)].id

(***************************************************************************)
(* EditorCanvas.tsx                                                        *)
(***************************************************************************)
\* Effect 3: the graph seeded from the AI result.
initPoints(skeleton) ==
  LET keep == SelectSeq(KeypointOrder,
                LAMBDA k : k \in skeleton /\ k \notin FACE_PARTS)
  IN [i \in 1..Len(keep) |->
        [id |-> keep[i], x |-> KeypointPos[keep[i]].x, y |-> KeypointPos[keep[i]].y]]

RECURSIVE initConnections(_, _, _)
initConnections(skeleton, i, acc) ==
  IF i > Len(DEFAULT_CONNECTIONS) THEN acc
  ELSE LET p1 == DEFAULT_CONNECTIONS[i][1]
           p2 == DEFAULT_CONNECTIONS[i][2]
       IN IF p1 \in skeleton /\ p2 \in skeleton
            THEN initConnections(skeleton, i + 1,
                   Append(acc, [id |-> generateId(Len(acc)), from |-> p1, to |-> p2]))
            ELSE initConnections(skeleton, i + 1, acc)

initEditorData(skeleton) ==
  [points |-> initPoints(skeleton),
   connections |-> initConnections(skeleton, 1, <<>>),
   angles |-> <<>>]

\* No call of the scoring engine: the editor does not use it.
NoCall == [fn |-> "none", args |-> <<>>, result |-> <<>>]

EditorInit ==
  /\ data \in Skeletons
  /\ activeTool = "MOVE"
  /\ editorData = initEditorData(data)
  /\ draggingPointId = null
  /\ connectingStartId = null
  /\ selectedElementIds = <<>>
  /\ generated = Len(editorData.connections)

Init == EditorInit /\ call = NoCall

\* The component's state and the activeTool prop, as a handler reads them.
State ==
  [activeTool |-> activeTool,
   editorData |-> editorData, draggingPointId |-> draggingPointId,
   connectingStartId |-> connectingStartId,
   selectedElementIds |-> selectedElementIds, generated |-> generated]

Some(seq, Test(_)) == \E i \in 1..Len(seq) : Test(seq[i])
Includes(seq, e) == \E i \in 1..Len(seq) : seq[i] = e

hitPointId(st, c) ==
  hitTestPoint(c.x, c.y, st.editorData.points, layout, PointTolerance)
hitLineId(st, c) ==
  hitTestConnection(c.x, c.y, st.editorData.connections, st.editorData.points,
                    layout, LineTolerance)
hitAngleId(st, c) ==
  hitTestAngle(c.x, c.y, st.editorData.angles, st.editorData.points,
               layout, AngleTolerance)

\* normX, normY of a cursor position (numerators over renderW, renderH).
normX(c) == c.x - layout.offsetX
normY(c) == c.y - layout.offsetY

\* handleStart, MOVE branch.
startMove(st, c) ==
  IF hitPointId(st, c) # null
    THEN [st EXCEPT !.draggingPointId = hitPointId(st, c)]
    ELSE st

\* An ADD_POINT branch that accepts any position at or after the image's
\* left and top edges.
startAddPoint_noUpperLimit(st, c) ==
  IF hitPointId(st, c) = null /\ normX(c) >= 0 /\ normY(c) >= 0
    THEN LET newP == [id |-> generateId(st.generated),
                      x |-> normX(c), y |-> normY(c)]
         IN [st EXCEPT !.editorData.points = Append(@, newP),
                       !.generated = @ + 1]
    ELSE st

\* handleStart, ADD_POINT branch.
startAddPoint(st, c) ==
  IF hitPointId(st, c) = null
       /\ normX(c) >= 0 /\ normX(c) <= layout.renderW
       /\ normY(c) >= 0 /\ normY(c) <= layout.renderH
    THEN LET newP == [id |-> generateId(st.generated),
                      x |-> normX(c), y |-> normY(c)]
         IN [st EXCEPT !.editorData.points = Append(@, newP),
                       !.generated = @ + 1]
    ELSE st

\* A test that never finds a connection.
exists_never(connections, start, hit) == FALSE

\* A test that finds a connection only in the direction it was drawn.
exists_sameDirection(connections, start, hit) ==
  Some(connections, LAMBDA k : k.from = start /\ k.to = hit)

\* handleStart, CONNECT branch: a connection joins the two points already.
exists(connections, start, hit) ==
  Some(connections, LAMBDA k : \/ (k.from = start /\ k.to = hit)
                               \/ (k.from = hit /\ k.to = start))

\* A connection drawn from the point hit back to the pending start.
newConn_reversed(id, start, hit) == [id |-> id, from |-> hit, to |-> start]

\* handleStart, CONNECT branch: the connection to add.
newConn(id, start, hit) == [id |-> id, from |-> start, to |-> hit]

\* A CONNECT branch that keeps the start pending when the connection is
\* there already.
startConnect_keepsStartOnDuplicate(st, c) ==
  LET hit == hitPointId(st, c)
      start == st.connectingStartId
  IN IF hit # null
       THEN IF start # null /\ start # hit
              THEN LET found == exists(st.editorData.connections, start, hit)
                   IN [st EXCEPT
                         !.editorData.connections =
                            IF found THEN @
                            ELSE Append(@, newConn(generateId(st.generated),
                                                   start, hit)),
                         !.generated = IF found THEN @ ELSE @ + 1,
                         !.connectingStartId = IF found THEN @ ELSE null]
              ELSE [st EXCEPT !.connectingStartId = hit]
       ELSE [st EXCEPT !.connectingStartId = null]

\* handleStart, CONNECT branch.
startConnect(st, c) ==
  LET hit == hitPointId(st, c)
      start == st.connectingStartId
  IN IF hit # null
       THEN IF start # null /\ start # hit
              THEN LET found == exists(st.editorData.connections, start, hit)
                   IN [st EXCEPT
                         !.editorData.connections =
                            IF found THEN @
                            ELSE Append(@, newConn(generateId(st.generated),
                                                   start, hit)),
                         !.generated = IF found THEN @ ELSE @ + 1,
                         !.connectingStartId = null]
              ELSE [st EXCEPT !.connectingStartId = hit]
       ELSE [st EXCEPT !.connectingStartId = null]

\* A point deletion that leaves the connections alone.
deletePoint_keepsConnections(prev, hitP) ==
  [points |-> SelectSeq(prev.points, LAMBDA p : p.id # hitP),
   connections |-> prev.connections,
   angles |-> SelectSeq(prev.angles,
                LAMBDA a : a.p1 # hitP /\ a.center # hitP /\ a.p2 # hitP)]

\* A point deletion that overlooks the second arm of an angle.
deletePoint_overlooksP2(prev, hitP) ==
  [points |-> SelectSeq(prev.points, LAMBDA p : p.id # hitP),
   connections |-> SelectSeq(prev.connections,
                     LAMBDA k : k.from # hitP /\ k.to # hitP),
   angles |-> SelectSeq(prev.angles,
                LAMBDA a : a.p1 # hitP /\ a.center # hitP)]

\* handleStart, DELETE branch: the graph without point hitP.
deletePoint(prev, hitP) ==
  [points |-> SelectSeq(prev.points, LAMBDA p : p.id # hitP),
   connections |-> SelectSeq(prev.connections,
                     LAMBDA k : k.from # hitP /\ k.to # hitP),
   angles |-> SelectSeq(prev.angles,
                LAMBDA a : a.p1 # hitP /\ a.center # hitP /\ a.p2 # hitP)]

\* handleStart, DELETE branch: the graph without angle hitA.
deleteAngle(prev, hitA) ==
  [prev EXCEPT !.angles = SelectSeq(@, LAMBDA a : a.id # hitA)]

HasConn(connections, id) == \E i \in 1..Len(connections) : connections[i].id = id
findConn(connections, id) ==
  connections[First({i \in 1..Len(connections) : connections[i].id = id})]

\* A connection deletion that leaves the angles alone.
deleteConnection_keepsAngles(prev, conn) ==
  [prev EXCEPT !.connections = SelectSeq(@, LAMBDA k : k.id # conn.id)]

\* A connection deletion that also takes the angles spanning the
\* connection: those with its two ends as their arms.
deleteConnection_takesSpanning(prev, conn) ==
  LET pA == conn.from
      pB == conn.to
  IN [prev EXCEPT
        !.connections = SelectSeq(@, LAMBDA k : k.id # conn.id),
        !.angles =
           SelectSeq(@, LAMBDA a :
             ~({pA, pB} \subseteq {a.p1, a.center, a.p2}))]

\* handleStart, DELETE branch: the graph without connection conn and
\* without the angles that have it as an arm.
deleteConnection(prev, conn) ==
  LET pA == conn.from
      pB == conn.to
  IN [prev EXCEPT
        !.connections = SelectSeq(@, LAMBDA k : k.id # conn.id),
        !.angles =
           SelectSeq(@, LAMBDA a :
             LET usesConnAsArm1 == a.center = pA /\ (a.p1 = pB \/ a.p2 = pB)
                 usesConnAsArm2 == a.center = pB /\ (a.p1 = pA \/ a.p2 = pA)
             IN ~(usesConnAsArm1 \/ usesConnAsArm2))]

\* A DELETE branch that looks for a point before an angle label.
startDelete_pointFirst(st, c) ==
  LET hitA == hitAngleId(st, c)
      hitP == hitPointId(st, c)
      hitL == hitLineId(st, c)
      ed   == st.editorData
  IN IF hitP # null
       THEN [st EXCEPT !.editorData = deletePoint(ed, hitP)]
     ELSE IF hitA # null
       THEN [st EXCEPT !.editorData = deleteAngle(ed, hitA)]
     ELSE IF hitL # null /\ HasConn(ed.connections, hitL)
       THEN [st EXCEPT !.editorData =
               deleteConnection(ed, findConn(ed.connections, hitL))]
     ELSE st

\* handleStart, DELETE branch.
startDelete(st, c) ==
  LET hitA == hitAngleId(st, c)
      hitP == hitPointId(st, c)
      hitL == hitLineId(st, c)
      ed   == st.editorData
  IN IF hitA # null
       THEN [st EXCEPT !.editorData = deleteAngle(ed, hitA)]
     ELSE IF hitP # null
       THEN [st EXCEPT !.editorData = deletePoint(ed, hitP)]
     ELSE IF hitL # null /\ HasConn(ed.connections, hitL)
       THEN [st EXCEPT !.editorData =
               deleteConnection(ed, findConn(ed.connections, hitL))]
     ELSE st

\* A search for the shared vertex whose last case takes the second
\* connection's far end for its near end.
sharedVertex_lastCaseWrong(conn1, conn2) ==
  IF conn1.from = conn2.from
    THEN [centerId |-> conn1.from, p1Id |-> conn1.to, p2Id |-> conn2.to]
  ELSE IF conn1.from = conn2.to
    THEN [centerId |-> conn1.from, p1Id |-> conn1.to, p2Id |-> conn2.from]
  ELSE IF conn1.to = conn2.from
    THEN [centerId |-> conn1.to, p1Id |-> conn1.from, p2Id |-> conn2.to]
  ELSE IF conn1.to = conn2.to
    THEN [centerId |-> conn1.to, p1Id |-> conn1.from, p2Id |-> conn2.to]
  ELSE [centerId |-> null, p1Id |-> null, p2Id |-> null]

\* handleStart, ANGLE branch: the center and arms of two connections, or
\* null when they share no vertex.
sharedVertex(conn1, conn2) ==
  IF conn1.from = conn2.from
    THEN [centerId |-> conn1.from, p1Id |-> conn1.to, p2Id |-> conn2.to]
  ELSE IF conn1.from = conn2.to
    THEN [centerId |-> conn1.from, p1Id |-> conn1.to, p2Id |-> conn2.from]
  ELSE IF conn1.to = conn2.from
    THEN [centerId |-> conn1.to, p1Id |-> conn1.from, p2Id |-> conn2.to]
  ELSE IF conn1.to = conn2.to
    THEN [centerId |-> conn1.to, p1Id |-> conn1.from, p2Id |-> conn2.from]
  ELSE [centerId |-> null, p1Id |-> null, p2Id |-> null]

\* A test that finds an angle only with its arms in the order given.
alreadyExists_sameOrder(angles, sv) ==
  Some(angles, LAMBDA a :
    a.center = sv.centerId /\ a.p1 = sv.p1Id /\ a.p2 = sv.p2Id)

\* handleStart, ANGLE branch: an angle with this center and these arms is
\* in the graph already.
alreadyExists(angles, sv) ==
  Some(angles, LAMBDA a :
    /\ a.center = sv.centerId
    /\ \/ (a.p1 = sv.p1Id /\ a.p2 = sv.p2Id)
       \/ (a.p1 = sv.p2Id /\ a.p2 = sv.p1Id))

\* An ANGLE branch that empties the selection when the two connections
\* share no vertex.
startAngle_clearsOnMismatch(st, c) ==
  LET hitL == hitLineId(st, c)
      ed   == st.editorData
      sel  == st.selectedElementIds
      newSelection == IF Includes(sel, hitL)
                        THEN SelectSeq(sel, LAMBDA id : id # hitL)
                        ELSE Append(sel, hitL)
  IN IF hitL = null THEN [st EXCEPT !.selectedElementIds = <<>>]
     ELSE IF Len(newSelection) = 2
               /\ HasConn(ed.connections, newSelection[1])
               /\ HasConn(ed.connections, newSelection[2])
       THEN LET sv == sharedVertex(findConn(ed.connections, newSelection[1]),
                                   findConn(ed.connections, newSelection[2]))
                found == alreadyExists(ed.angles, sv)
                newAngle == [id |-> generateId(st.generated), p1 |-> sv.p1Id,
                             center |-> sv.centerId, p2 |-> sv.p2Id]
            IN IF sv.centerId # null /\ sv.p1Id # null /\ sv.p2Id # null
                 THEN [st EXCEPT
                         !.editorData.angles =
                            IF found THEN @ ELSE Append(@, newAngle),
                         !.generated = IF found THEN @ ELSE @ + 1,
                         !.selectedElementIds = <<>>]
                 ELSE [st EXCEPT !.selectedElementIds = <<>>]
     ELSE [st EXCEPT !.selectedElementIds = newSelection]

\* An ANGLE branch that leaves both connections selected once their
\* angle is made.
startAngle_keepsPair(st, c) ==
  LET hitL == hitLineId(st, c)
      ed   == st.editorData
      sel  == st.selectedElementIds
      newSelection == IF Includes(sel, hitL)
                        THEN SelectSeq(sel, LAMBDA id : id # hitL)
                        ELSE Append(sel, hitL)
  IN IF hitL = null THEN [st EXCEPT !.selectedElementIds = <<>>]
     ELSE IF Len(newSelection) = 2
               /\ HasConn(ed.connections, newSelection[1])
               /\ HasConn(ed.connections, newSelection[2])
       THEN LET sv == sharedVertex(findConn(ed.connections, newSelection[1]),
                                   findConn(ed.connections, newSelection[2]))
                found == alreadyExists(ed.angles, sv)
                newAngle == [id |-> generateId(st.generated), p1 |-> sv.p1Id,
                             center |-> sv.centerId, p2 |-> sv.p2Id]
            IN IF sv.centerId # null /\ sv.p1Id # null /\ sv.p2Id # null
                 THEN [st EXCEPT
                         !.editorData.angles =
                            IF found THEN @ ELSE Append(@, newAngle),
                         !.generated = IF found THEN @ ELSE @ + 1,
                         !.selectedElementIds = newSelection]
                 ELSE [st EXCEPT !.selectedElementIds = <<hitL>>]
     ELSE [st EXCEPT !.selectedElementIds = newSelection]

\* handleStart, ANGLE branch.
startAngle(st, c) ==
  LET hitL == hitLineId(st, c)
      ed   == st.editorData
      sel  == st.selectedElementIds
      newSelection == IF Includes(sel, hitL)
                        THEN SelectSeq(sel, LAMBDA id : id # hitL)
                        ELSE Append(sel, hitL)
  IN IF hitL = null THEN [st EXCEPT !.selectedElementIds = <<>>]
     ELSE IF Len(newSelection) = 2
               /\ HasConn(ed.connections, newSelection[1])
               /\ HasConn(ed.connections, newSelection[2])
       THEN LET sv == sharedVertex(findConn(ed.connections, newSelection[1]),
                                   findConn(ed.connections, newSelection[2]))
                found == alreadyExists(ed.angles, sv)
                newAngle == [id |-> generateId(st.generated), p1 |-> sv.p1Id,
                             center |-> sv.centerId, p2 |-> sv.p2Id]
            IN IF sv.centerId # null /\ sv.p1Id # null /\ sv.p2Id # null
                 THEN [st EXCEPT
                         !.editorData.angles =
                            IF found THEN @ ELSE Append(@, newAngle),
                         !.generated = IF found THEN @ ELSE @ + 1,
                         !.selectedElementIds = <<>>]
                 ELSE [st EXCEPT !.selectedElementIds = <<hitL>>]
     ELSE [st EXCEPT !.selectedElementIds = newSelection]

\* The showSkeleton prop: the host's state of that name, which it
\* initialises and never sets.
showSkeleton == TRUE

\* handleStart: the state after a pointer-down at cursor position c.
handleStart(st, c) ==
  IF ~showSkeleton THEN st
  ELSE CASE st.activeTool = "MOVE"      -> startMove(st, c)
         [] st.activeTool = "ADD_POINT" -> startAddPoint(st, c)
         [] st.activeTool = "CONNECT"   -> startConnect(st, c)
         [] st.activeTool = "DELETE"    -> startDelete(st, c)
         [] st.activeTool = "ANGLE"     -> startAngle(st, c)

\* A pointer-move that keeps the dragged point inside the image.
handleMove_clamped(st, c) ==
  IF st.activeTool = "MOVE" /\ st.draggingPointId # null
    THEN [st EXCEPT !.editorData.points =
            [i \in 1..Len(@) |->
               IF @[i].id = st.draggingPointId
                 THEN [@[i] EXCEPT
                         !.x = Clamp(0, normX(c), layout.renderW),
                         !.y = Clamp(0, normY(c), layout.renderH)]
                 ELSE @[i]]]
    ELSE st

\* handleMove: the state after a pointer-move to cursor position c.
handleMove(st, c) ==
  IF st.activeTool = "MOVE" /\ st.draggingPointId # null
    THEN [st EXCEPT !.editorData.points =
            [i \in 1..Len(@) |->
               IF @[i].id = st.draggingPointId
                 THEN [@[i] EXCEPT !.x = normX(c), !.y = normY(c)]
                 ELSE @[i]]]
    ELSE st

\* A pointer-up that leaves the drag in progress.
handleEnd_keepsDrag(st) == st

\* handleEnd: the state after a pointer-up.
handleEnd(st) == [st EXCEPT !.draggingPointId = null]

\* A tool-change effect that resets the selection and the drag only.
toolChangeEffect_keepsStart(st) ==
  [st EXCEPT !.selectedElementIds = <<>>,
             !.draggingPointId = null]

\* A tool-change effect that resets the selection and the pending start only.
toolChangeEffect_keepsDrag(st) ==
  [st EXCEPT !.selectedElementIds = <<>>,
             !.connectingStartId = null]

\* The tool-change effect, run when the activeTool prop has changed.
toolChangeEffect(st) ==
  [st EXCEPT !.selectedElementIds = <<>>,
             !.connectingStartId = null,
             !.draggingPointId = null]

Become(st) ==
  /\ activeTool' = st.activeTool
  /\ editorData' = st.editorData
  /\ draggingPointId' = st.draggingPointId
  /\ connectingStartId' = st.connectingStartId
  /\ selectedElementIds' = st.selectedElementIds
  /\ generated' = st.generated
  /\ UNCHANGED <<data, call>>

HandleStart ==
  \E c \in DownPos :
    \E st \in {handleStart(State, c)} :
      /\ st.generated <= Len(initEditorData(data).connections) + MaxNewIds
      /\ Become(st)

HandleMove ==
  \E c \in MovePos : \E st \in {handleMove(State, c)} : Become(st)

HandleEnd == \E st \in {handleEnd(State)} : Become(st)

\* The host sets another tool; the tool-change effect runs with the render.
SetActiveTool ==
  \E tool \in EditorTool \ {activeTool} :
    \E st \in {toolChangeEffect([State EXCEPT !.activeTool = tool])} : Become(st)

Next ==
  \/ HandleStart
  \/ HandleMove
  \/ HandleEnd
  \/ SetActiveTool

Spec == Init /\ [][Next]_vars

(***************************************************************************)
(* mathUtils.ts: the scoring engine.                                       *)
(*                                                                         *)
(* Numbers.  The engine's numbers are modelled exactly: a value that need  *)
(* not be whole is a fraction [n |-> numerator, d |-> denominator] with    *)
(* d > 0; an absent value (null) is the empty sequence and a present one a *)
(* sequence of length one.                                                 *)
(***************************************************************************)
Absent == <<>>
Present(v) == <<v>>
Rat(n, d) == [n |-> n, d |-> d]

\* Math.round(n / d): the nearest whole number, halves going up.
MathRound(n, d) ==
  IF d < 0 THEN (2 * (-n) + (-d)) \div (2 * (-d))
           ELSE (2 * n + d) \div (2 * d)

\* A descending score that is not capped at 100 below max.
getLinearScore_noUpperCap(value, min, max) ==
  IF value = Absent THEN 0
  ELSE LET v == value[1]
       IN IF min > max
            THEN IF v.n >= min * v.d THEN 0
                 ELSE MathRound((v.n - min * v.d) * 100, (max - min) * v.d)
            ELSE IF v.n <= 0 THEN 0
                 ELSE IF v.n >= max * v.d THEN 100
                 ELSE MathRound(v.n * 100, max * v.d)

\* An ascending score that is 0 below min as well.
getLinearScore_zeroBelowMin(value, min, max) ==
  IF value = Absent THEN 0
  ELSE LET v == value[1]
       IN IF min > max
            THEN IF v.n <= max * v.d THEN 100
                 ELSE IF v.n >= min * v.d THEN 0
                 ELSE MathRound((v.n - min * v.d) * 100, (max - min) * v.d)
            ELSE IF v.n <= 0 \/ v.n < min * v.d THEN 0
                 ELSE IF v.n >= max * v.d THEN 100
                 ELSE MathRound(v.n * 100, max * v.d)

\* A descending score that rises from max to min.
getLinearScore_risingDescent(value, min, max) ==
  IF value = Absent THEN 0
  ELSE LET v == value[1]
       IN IF min > max
            THEN IF v.n <= max * v.d THEN 100
                 ELSE IF v.n >= min * v.d THEN 0
                 ELSE MathRound((v.n - max * v.d) * 100, (min - max) * v.d)
            ELSE IF v.n <= 0 THEN 0
                 ELSE IF v.n >= max * v.d THEN 100
                 ELSE MathRound(v.n * 100, max * v.d)

getLinearScore(value, min, max) ==
  IF value = Absent THEN 0
  ELSE LET v == value[1]
       IN IF min > max
            THEN IF v.n <= max * v.d THEN 100
                 ELSE IF v.n >= min * v.d THEN 0
                 ELSE MathRound((v.n - min * v.d) * 100, (max - min) * v.d)
            ELSE IF v.n <= 0 THEN 0
                 ELSE IF v.n >= max * v.d THEN 100
                 ELSE MathRound(v.n * 100, max * v.d)

\* valid.reduce((a, b) => a + b, 0)
RECURSIVE reduceSum(_)
reduceSum(valid) ==
  IF valid = <<>> THEN 0 ELSE valid[1] + reduceSum(Tail(valid))

\* An average that leaves out the scores of 0 too.
getAverageScore_dropsZero(scores) ==
  LET valid == SelectSeq(scores, LAMBDA sc : sc > 0)
  IN IF Len(valid) = 0 THEN 0
     ELSE MathRound(reduceSum(valid), Len(valid))

getAverageScore(scores) ==
  LET valid == SelectSeq(scores, LAMBDA sc : sc >= 0)
  IN IF Len(valid) = 0 THEN 0
     ELSE MathRound(reduceSum(valid), Len(valid))

(***************************************************************************)
(* mathUtils.ts: skeletons, joint vectors and angles.                      *)
(*                                                                         *)
(* A skeleton is a function from the names of the keypoints detected to    *)
(* their points.  Coordinates are whole and even, so that a midpoint is    *)
(* whole.  A joint token is the sequence of its parts: <<"leftBiceps">>,   *)
(* <<"-", "leftBiceps">>, <<"-", "vertical">>.                             *)
(***************************************************************************)
JOINT_DICT ==
  [name \in {"leftBiceps", "rightBiceps", "leftForarm", "rightForarm",
             "leftThigh", "rightThigh", "leftTibia", "rightTibia",
             "leftChest", "rightChest", "leftLeg", "rightLeg",
             "leftNeck", "rightNeck", "neck"} |->
     CASE name = "leftBiceps"  -> [kp1 |-> "leftShoulder",  kp2 |-> "leftElbow"]
       [] name = "rightBiceps" -> [kp1 |-> "rightShoulder", kp2 |-> "rightElbow"]
       [] name = "leftForarm"  -> [kp1 |-> "leftElbow",     kp2 |-> "leftWrist"]
       [] name = "rightForarm" -> [kp1 |-> "rightElbow",    kp2 |-> "rightWrist"]
       [] name = "leftThigh"   -> [kp1 |-> "leftHip",       kp2 |-> "leftKnee"]
       [] name = "rightThigh"  -> [kp1 |-> "rightHip",      kp2 |-> "rightKnee"]
       [] name = "leftTibia"   -> [kp1 |-> "leftKnee",      kp2 |-> "leftAnkle"]
       [] name = "rightTibia"  -> [kp1 |-> "rightKnee",     kp2 |-> "rightAnkle"]
       [] name = "leftChest"   -> [kp1 |-> "leftShoulder",  kp2 |-> "leftHip"]
       [] name = "rightChest"  -> [kp1 |-> "rightShoulder", kp2 |-> "rightHip"]
       [] name = "leftLeg"     -> [kp1 |-> "leftHip",       kp2 |-> "leftAnkle"]
       [] name = "rightLeg"    -> [kp1 |-> "rightHip",      kp2 |-> "rightAnkle"]
       [] name = "leftNeck"    -> [kp1 |-> "manubrium",     kp2 |-> "leftEar"]
       [] name = "rightNeck"   -> [kp1 |-> "manubrium",     kp2 |-> "rightEar"]
       [] name = "neck"        -> [kp1 |-> "manubrium",     kp2 |-> "nose"]]

Has(kps, name) == name \in DOMAIN kps

midpoint(p, q) == [x |-> (p.x + q.x) \div 2, y |-> (p.y + q.y) \div 2]

buildEnrichedSkeleton(skeleton) ==
  LET hasManubrium ==
        Has(skeleton, "leftShoulder") /\ Has(skeleton, "rightShoulder")
      hasPubis == Has(skeleton, "leftHip") /\ Has(skeleton, "rightHip")
      names == DOMAIN skeleton
                 \cup (IF hasManubrium THEN {"manubrium"} ELSE {})
                 \cup (IF hasPubis THEN {"pubis"} ELSE {})
  IN [k \in names |->
        IF k = "manubrium" /\ hasManubrium
          THEN midpoint(skeleton["leftShoulder"], skeleton["rightShoulder"])
        ELSE IF k = "pubis" /\ hasPubis
          THEN midpoint(skeleton["leftHip"], skeleton["rightHip"])
        ELSE skeleton[k]]

\* A joint vector taken from its second keypoint to its first.
resolveVector_backward(jointName, kps) ==
  CASE jointName = <<"vertical">>        -> Present(<<0, 1>>)
    [] jointName = <<"-", "vertical">>   -> Present(<<0, -1>>)
    [] jointName = <<"horizontal">>      -> Present(<<1, 0>>)
    [] jointName = <<"-", "horizontal">> -> Present(<<-1, 0>>)
    [] OTHER ->
         LET invert == jointName[1] = "-"
             name == IF invert THEN Tail(jointName) ELSE jointName
         IN IF Len(name) # 1 \/ name[1] \notin DOMAIN JOINT_DICT THEN Absent
            ELSE LET def == JOINT_DICT[name[1]]
                 IN IF ~Has(kps, def.kp1) \/ ~Has(kps, def.kp2) THEN Absent
                    ELSE LET p1 == kps[def.kp1]
                             p2 == kps[def.kp2]
                         IN IF invert
                              THEN Present(<<p2.x - p1.x, p2.y - p1.y>>)
                              ELSE Present(<<p1.x - p2.x, p1.y - p2.y>>)

resolveVector(jointName, kps) ==
  CASE jointName = <<"vertical">>        -> Present(<<0, 1>>)
    [] jointName = <<"-", "vertical">>   -> Present(<<0, -1>>)
    [] jointName = <<"horizontal">>      -> Present(<<1, 0>>)
    [] jointName = <<"-", "horizontal">> -> Present(<<-1, 0>>)
    [] OTHER ->
         LET invert == jointName[1] = "-"
             name == IF invert THEN Tail(jointName) ELSE jointName
         IN IF Len(name) # 1 \/ name[1] \notin DOMAIN JOINT_DICT THEN Absent
            ELSE LET def == JOINT_DICT[name[1]]
                 IN IF ~Has(kps, def.kp1) \/ ~Has(kps, def.kp2) THEN Absent
                    ELSE LET p1 == kps[def.kp1]
                             p2 == kps[def.kp2]
                         IN IF invert
                              THEN Present(<<p1.x - p2.x, p1.y - p2.y>>)
                              ELSE Present(<<p2.x - p1.x, p2.y - p1.y>>)

\* Math.atan2(y, x) * (180 / Math.PI), for the directions whose angle is a
\* multiple of 45 degrees: there it is that multiple exactly.  The sign of
\* a zero is left out: every caller maps -180 to 180 and -0 to 0.
atan2Deg(y, x) ==
  CASE y = 0 /\ x >= 0  -> 0
    [] y = 0 /\ x < 0   -> 180
    [] x = 0 /\ y > 0   -> 90
    [] x = 0 /\ y < 0   -> -90
    [] y = x /\ x > 0   -> 45
    [] y = -x /\ x > 0  -> -45
    [] y = -x /\ x < 0  -> 135
    [] y = x /\ x < 0   -> -135

\* An angle left as atan2 gives it, from -180 to 180.
computeAngleVector_unwrapped(vec1, vec2) ==
  atan2Deg(vec1[1] * vec2[2] - vec1[2] * vec2[1],
           vec1[1] * vec2[1] + vec1[2] * vec2[2])

computeAngleVector(vec1, vec2) ==
  LET ang == atan2Deg(vec1[1] * vec2[2] - vec1[2] * vec2[1],
                      vec1[1] * vec2[1] + vec1[2] * vec2[2])
  IN IF ang < 0 THEN 360 + ang ELSE ang

\* An angle taken from joint1 to joint2, in the declared order.
computeAngle_declaredOrder(kps, def) ==
  LET v1 == resolveVector(def.joint1, kps)
      v2 == resolveVector(def.joint2, kps)
  IN IF v1 = Absent \/ v2 = Absent THEN Absent
     ELSE Present(computeAngleVector(v1[1], v2[1]))

computeAngle(kps, def) ==
  LET v1 == resolveVector(def.joint1, kps)
      v2 == resolveVector(def.joint2, kps)
  IN IF v1 = Absent \/ v2 = Absent THEN Absent
     ELSE Present(computeAngleVector(v2[1], v1[1]))

AngleDef(center, joint1, joint2, min, max) ==
  [center |-> center, joint1 |-> joint1, joint2 |-> joint2,
   min |-> min, max |-> max]

(***************************************************************************)
(* The test library (unnamed/part_004).  analyze takes a map from pose id  *)
(* to the analysis result of that pose's photo, and returns a report or    *)
(* nothing.  The translator t is the identity on message keys; a string    *)
(* built from a key and numbers is the tuple of the key and the numbers,   *)
(* "--" standing as the absent number.                                     *)
(***************************************************************************)
Whole(angle) == Present(Rat(angle, 1))

\* Number.toFixed(1), in tenths.
toFixed1(r) == MathRound(r.n * 10, r.d)

scorePose(dataMap, poseId, angleDef) ==
  IF ~Has(dataMap, poseId) THEN [score |-> -1, angleStr |-> <<"--">>]
  ELSE LET kps == buildEnrichedSkeleton(dataMap[poseId].skeleton)
           angle == computeAngle(kps, angleDef)
       IN IF angle = Absent THEN [score |-> -1, angleStr |-> <<"--">>]
          ELSE [score |-> getLinearScore(Whole(angle[1]), angleDef.min,
                                         angleDef.max),
                angleStr |-> <<toFixed1(Rat(angle[1], 1)), angleDef.max>>]

\* if (score >= 0) scores.push(score)
pushScore(scores, score) == IF score >= 0 THEN Append(scores, score) ELSE scores

FRONT_LEFT  == AngleDef("leftShoulder", <<"vertical">>, <<"leftBiceps">>, 0, 180)
FRONT_RIGHT == AngleDef("rightShoulder", <<"rightBiceps">>, <<"vertical">>, 0, 180)
LEFT_FWD    == AngleDef("leftShoulder", <<"leftBiceps">>, <<"vertical">>, 0, 180)
RIGHT_FWD   == AngleDef("rightShoulder", <<"vertical">>, <<"rightBiceps">>, 0, 180)
LEFT_BWD    == AngleDef("leftShoulder", <<"vertical">>, <<"leftBiceps">>, 0, 50)
RIGHT_BWD   == AngleDef("rightShoulder", <<"rightBiceps">>, <<"vertical">>, 0, 50)

\* The frontShoulder block of shoulder_mobility.analyze: the scores and
\* details it pushes.
frontShoulder(dataMap) ==
  IF ~Has(dataMap, "frontShoulder") THEN [scores |-> <<>>, details |-> <<>>]
  ELSE LET kps == buildEnrichedSkeleton(dataMap["frontShoulder"].skeleton)
           aLeft == computeAngle(kps, FRONT_LEFT)
           aRight == computeAngle(kps, FRONT_RIGHT)
           sLeft == IF aLeft # Absent
                      THEN getLinearScore(Whole(aLeft[1]), FRONT_LEFT.min,
                                          FRONT_LEFT.max)
                      ELSE -1
           sRight == IF aRight # Absent
                       THEN getLinearScore(Whole(aRight[1]), FRONT_RIGHT.min,
                                           FRONT_RIGHT.max)
                       ELSE -1
           avg == getAverageScore(<<sLeft, sRight>>)
       IN [scores |-> pushScore(<<>>, avg),
           details |-> << <<"pose.shoulder.front",
                            IF aLeft # Absent THEN toFixed1(Rat(aLeft[1], 1))
                                              ELSE "--",
                            IF aRight # Absent THEN toFixed1(Rat(aRight[1], 1))
                                               ELSE "--">> >>]

shoulder_mobility(dataMap) ==
  LET front == frontShoulder(dataMap)
      leftFwd == scorePose(dataMap, "leftShoulder", LEFT_FWD)
      rightFwd == scorePose(dataMap, "rightShoulder", RIGHT_FWD)
      leftBwd == scorePose(dataMap, "leftShoulderBackward", LEFT_BWD)
      rightBwd == scorePose(dataMap, "rightShoulderBackward", RIGHT_BWD)
      scores == pushScore(pushScore(pushScore(pushScore(front.scores,
                  leftFwd.score), rightFwd.score), leftBwd.score), rightBwd.score)
      details == front.details \o
                 << <<"pose.shoulder.left_forward">> \o leftFwd.angleStr,
                    <<"pose.shoulder.right_forward">> \o rightFwd.angleStr,
                    <<"pose.shoulder.left_backward">> \o leftBwd.angleStr,
                    <<"pose.shoulder.right_backward">> \o rightBwd.angleStr >>
      totalScore == getAverageScore(scores)
  IN Present([score |-> totalScore,
              title |-> IF totalScore > 80 THEN "diag.shoulder.good"
                                           ELSE "diag.shoulder.restricted",
              description |-> IF totalScore > 80 THEN "desc.shoulder.good"
                                                 ELSE "desc.shoulder.restricted",
              details |-> details,
              warnings |-> <<>>])

NECK_RIGHT_SIDE == AngleDef("manubrium", <<"-", "vertical">>, <<"neck">>, 0, 50)
NECK_LEFT_SIDE  == AngleDef("manubrium", <<"neck">>, <<"-", "vertical">>, 0, 50)
NECK_FRONT      == AngleDef("manubrium", <<"rightNeck">>, <<"-", "vertical">>, 0, 60)
NECK_BACK       == AngleDef("manubrium", <<"-", "vertical">>, <<"rightNeck">>, -30, 50)

neck_mobility(dataMap) ==
  LET rightSide == scorePose(dataMap, "neckRightSideBend", NECK_RIGHT_SIDE)
      leftSide == scorePose(dataMap, "neckLeftSideBend", NECK_LEFT_SIDE)
      frontBend == scorePose(dataMap, "neckFrontBend", NECK_FRONT)
      backBend == scorePose(dataMap, "neckBackBend", NECK_BACK)
      scores == pushScore(pushScore(pushScore(pushScore(<<>>,
                  rightSide.score), leftSide.score), frontBend.score),
                  backBend.score)
      totalScore == getAverageScore(scores)
  IN Present([score |-> totalScore,
              title |-> "diag.neck.good",
              description |-> "desc.neck.good",
              details |-> << <<"pose.neck.right_side_bend">> \o rightSide.angleStr,
                             <<"pose.neck.left_side_bend">> \o leftSide.angleStr,
                             <<"pose.neck.front_bend">> \o frontBend.angleStr,
                             <<"pose.neck.back_bend">> \o backBend.angleStr >>,
              warnings |-> <<>>])

wrist_mobility(dataMap) ==
  Present([score |-> -1,
           title |-> "diag.wrist.unavailable",
           description |-> "desc.wrist.unavailable",
           details |-> << <<"detail.wrist.needs_hand_model">> >>,
           warnings |-> <<>>])

MathAbs(x) == IF x < 0 THEN -x ELSE x
MathMax(a, b) == IF a >= b THEN a ELSE b

\* Keypoint coordinates are fractions of the image: the whole coordinate c
\* of a skeleton stands for c / Grid.
Grid == 40

\* patientHeight = 170, the default of posture_analysis.analyze.
DefaultPatientHeight == 170

\* |(ankle.x - other.x) * cmPerUnit| of the side block, with
\* bodyFraction = Math.abs(noseY - ankleY) || 0.5.
shiftXCm(kps, other, patientHeight) ==
  LET ankleY == kps["leftAnkle"].y
      noseY == IF Has(kps, "nose") THEN kps["nose"].y ELSE 0
      dx == MathAbs(kps["leftAnkle"].x - kps[other].x)
  IN IF noseY # ankleY
       THEN Rat(dx * (patientHeight - 10), MathAbs(noseY - ankleY))
       ELSE Rat(2 * dx * (patientHeight - 10), Grid)

\* A tilt of the front block: the score and the detail pushed for the line
\* from keypoint l to keypoint r.
tilt(kps, l, r, key) ==
  IF ~Has(kps, l) \/ ~Has(kps, r) THEN [scores |-> <<>>, details |-> <<>>]
  ELSE LET dx == kps[r].x - kps[l].x
           dy == kps[r].y - kps[l].y
           absAng == MathAbs(atan2Deg(dy, dx))
       IN [scores |-> <<getLinearScore(Whole(absAng), 20, 0)>>,
           details |-> << <<key, toFixed1(Rat(absAng, 1)),
                            IF dy > 0 THEN "direction.right"
                                      ELSE "direction.left">> >>]

\* A shift of the side block, scored from limit down to 0.
shift(kps, other, limit, key, patientHeight) ==
  IF ~Has(kps, "leftAnkle") \/ ~Has(kps, other)
    THEN [scores |-> <<>>, details |-> <<>>]
  ELSE LET cm == shiftXCm(kps, other, patientHeight)
       IN [scores |-> <<getLinearScore(Present(cm), limit, 0)>>,
           details |-> << <<key, toFixed1(cm),
                            IF kps[other].x < kps["leftAnkle"].x
                              THEN "direction.front"
                              ELSE "direction.back">> >>]

posture_analysis(dataMap, patientHeight) ==
  LET none == [scores |-> <<>>, details |-> <<>>]
      front == IF Has(dataMap, "front")
                 THEN buildEnrichedSkeleton(dataMap["front"].skeleton)
                 ELSE <<>>
      side == IF Has(dataMap, "side")
                THEN buildEnrichedSkeleton(dataMap["side"].skeleton)
                ELSE <<>>
      shoulderTilt ==
        IF Has(dataMap, "front")
          THEN tilt(front, "leftShoulder", "rightShoulder",
                    "detail.posture.shoulder_tilt")
          ELSE none
      hipTilt ==
        IF Has(dataMap, "front")
          THEN tilt(front, "leftHip", "rightHip", "detail.posture.hip_tilt")
          ELSE none
      earShift ==
        IF Has(dataMap, "side")
          THEN shift(side, "leftEar", 13, "detail.posture.ear_shift",
                     patientHeight)
          ELSE none
      shoulderShift ==
        IF Has(dataMap, "side")
          THEN shift(side, "leftShoulder", 8, "detail.posture.shoulder_shift",
                     patientHeight)
          ELSE none
      scores == shoulderTilt.scores \o hipTilt.scores \o earShift.scores
                  \o shoulderShift.scores
      totalScore == getAverageScore(scores)
  IN Present([score |-> totalScore,
              title |-> IF totalScore > 80 THEN "diag.posture.good"
                                           ELSE "diag.posture.imbalance",
              description |-> IF totalScore > 80 THEN "desc.posture.good"
                                                 ELSE "desc.posture.imbalance",
              details |-> shoulderTilt.details \o hipTilt.details
                            \o earShift.details \o shoulderShift.details,
              warnings |-> <<>>])

(***************************************************************************)
(* The single-photo tests (services/orthopedicService.ts) and the geometry *)
(* they use (utils/geometryUtils.ts).  analyze takes one skeleton.         *)
(***************************************************************************)
\* The angles are whole on the directions of atan2Deg, so that Math.round
\* leaves them as they are.
calculateAngle(p1, center, p2) ==
  LET angleDeg == MathAbs(atan2Deg(p2.y - center.y, p2.x - center.x)
                            - atan2Deg(p1.y - center.y, p1.x - center.x))
  IN IF angleDeg > 180 THEN 360 - angleDeg ELSE angleDeg

\* tan(0.5), tan(1.5), ..., tan(89.5) of the degrees, in ten-thousandths: the
\* slopes at which an angle of the first quadrant, rounded to the degree,
\* steps up by one.
TanHalfDegrees ==
  <<87, 261, 436, 611, 787, 962, 1139, 1316, 1494,
     1673, 1853, 2034, 2216, 2400, 2586, 2773, 2962, 3152,
     3345, 3541, 3738, 3939, 4142, 4348, 4557, 4769, 4985,
     5205, 5429, 5657, 5890, 6128, 6370, 6618, 6872, 7132,
     7399, 7673, 7954, 8243, 8540, 8847, 9163, 9489, 9826,
     10176, 10537, 10913, 11302, 11708, 12130, 12571, 13032, 13514,
     14019, 14550, 15108, 15696, 16318, 16976, 17674, 18417, 19209,
     20056, 20965, 21942, 22998, 24142, 25386, 26746, 28239, 29886,
     31715, 33759, 36058, 38667, 41652, 45107, 49151, 53955, 59757,
     66911, 75957, 87768, 103853, 127062, 163498, 229037, 381884, 1145886 >>

\* Math.round(Math.abs(Math.atan2(y, x) * 180 / Math.PI)), for whole y and
\* x whose direction is on none of the steps.
roundAbsAtan2Deg(y, x) ==
  LET ay == MathAbs(y)
      ax == MathAbs(x)
      acute == IF ax = 0 THEN (IF ay = 0 THEN 0 ELSE 90)
               ELSE Cardinality({k \in 1..90 :
                                   TanHalfDegrees[k] * ax <= ay * 10000})
  IN IF x >= 0 THEN acute ELSE 180 - acute

calculateVerticalDeviation(top, bottom) ==
  roundAbsAtan2Deg(bottom.x - top.x, bottom.y - top.y)

calculateHorizontalDeviation(left, right) ==
  roundAbsAtan2Deg(right.y - left.y, right.x - left.x)

\* The mild band taken from a deviation of 2 on.
shoulder_level_mildFrom2(skeleton) ==
  IF ~Has(skeleton, "leftShoulder") \/ ~Has(skeleton, "rightShoulder")
    THEN Absent
  ELSE LET deviation == calculateHorizontalDeviation(skeleton["leftShoulder"],
                                                     skeleton["rightShoulder"])
       IN Present(
            [score |-> IF deviation > 5 THEN MathMax(0, 100 - deviation * 5)
                       ELSE IF deviation >= 2 THEN 90 ELSE 100,
             title |-> IF deviation > 5 THEN "diag.shoulder.significant"
                       ELSE IF deviation >= 2 THEN "diag.shoulder.mild"
                       ELSE "diag.shoulder.balanced",
             description |-> IF deviation < 2 THEN "desc.shoulder.good"
                                               ELSE "desc.shoulder.bad",
             details |-> << <<"detail.shoulder.angle", deviation>> >>,
             warnings |->
               IF deviation > 5
                 THEN << [level |-> IF deviation > 10 THEN "high" ELSE "medium",
                          message |-> <<"diag.shoulder.msg_significant",
                                        deviation>>,
                          futureRisk |-> "risk.shoulder.chronic"] >>
               ELSE IF deviation >= 2
                 THEN << [level |-> "low",
                          message |-> <<"diag.shoulder.msg_mild", deviation>>,
                          futureRisk |-> "risk.shoulder.muscle"] >>
               ELSE <<>>])

shoulder_level(skeleton) ==
  IF ~Has(skeleton, "leftShoulder") \/ ~Has(skeleton, "rightShoulder")
    THEN Absent
  ELSE LET deviation == calculateHorizontalDeviation(skeleton["leftShoulder"],
                                                     skeleton["rightShoulder"])
       IN Present(
            [score |-> IF deviation > 5 THEN MathMax(0, 100 - deviation * 5)
                       ELSE IF deviation > 2 THEN 90 ELSE 100,
             title |-> IF deviation > 5 THEN "diag.shoulder.significant"
                       ELSE IF deviation > 2 THEN "diag.shoulder.mild"
                       ELSE "diag.shoulder.balanced",
             description |-> IF deviation <= 2 THEN "desc.shoulder.good"
                                               ELSE "desc.shoulder.bad",
             details |-> << <<"detail.shoulder.angle", deviation>> >>,
             warnings |->
               IF deviation > 5
                 THEN << [level |-> IF deviation > 10 THEN "high" ELSE "medium",
                          message |-> <<"diag.shoulder.msg_significant",
                                        deviation>>,
                          futureRisk |-> "risk.shoulder.chronic"] >>
               ELSE IF deviation > 2
                 THEN << [level |-> "low",
                          message |-> <<"diag.shoulder.msg_mild", deviation>>,
                          futureRisk |-> "risk.shoulder.muscle"] >>
               ELSE <<>>])

forward_head(skeleton) ==
  IF \/ ~Has(skeleton, "leftEar") /\ ~Has(skeleton, "rightEar")
     \/ ~Has(skeleton, "leftShoulder") /\ ~Has(skeleton, "rightShoulder")
    THEN Absent
  ELSE LET ear == IF Has(skeleton, "leftEar") THEN skeleton["leftEar"]
                                              ELSE skeleton["rightEar"]
           shoulder == IF Has(skeleton, "leftShoulder")
                         THEN skeleton["leftShoulder"]
                         ELSE skeleton["rightShoulder"]
           deviation == calculateVerticalDeviation(ear, shoulder)
       IN Present(
            [score |-> IF deviation > 25 THEN 50
                       ELSE IF deviation > 15 THEN 75 ELSE 100,
             title |-> IF deviation > 25 THEN "diag.head.severe"
                       ELSE IF deviation > 15 THEN "diag.head.mild"
                       ELSE "diag.head.good",
             description |-> IF deviation <= 15 THEN "desc.head.good"
                                                ELSE "desc.head.bad",
             details |-> << <<"detail.head.angle", deviation>> >>,
             warnings |->
               IF deviation > 25
                 THEN << [level |-> "high",
                          message |-> <<"diag.head.msg_severe", deviation>>,
                          futureRisk |-> "risk.head.severe"] >>
               ELSE IF deviation > 15
                 THEN << [level |-> "medium",
                          message |-> <<"diag.head.msg_mild", deviation>>,
                          futureRisk |-> "risk.head.mild"] >>
               ELSE <<>>])

leg_alignment(skeleton) ==
  IF \E k \in {"leftHip", "leftKnee", "leftAnkle",
               "rightHip", "rightKnee", "rightAnkle"} : ~Has(skeleton, k)
    THEN Absent
  ELSE LET leftAngle == calculateAngle(skeleton["leftHip"],
                                       skeleton["leftKnee"],
                                       skeleton["leftAnkle"])
           rightAngle == calculateAngle(skeleton["rightHip"],
                                        skeleton["rightKnee"],
                                        skeleton["rightAnkle"])
           valgus == leftAngle < 165 \/ rightAngle < 165
       IN Present(
            [score |-> IF valgus THEN 60
                       ELSE IF leftAngle > 185 \/ rightAngle > 185 THEN 80
                       ELSE 100,
             title |-> IF valgus THEN "diag.leg.valgus" ELSE "diag.leg.good",
             description |-> IF valgus THEN "diag.leg.desc_valgus"
                                       ELSE "diag.leg.desc_good",
             details |-> << <<"detail.leg.left", leftAngle>>,
                            <<"detail.leg.right", rightAngle>> >>,
             warnings |->
               IF valgus
                 THEN << [level |-> "medium",
                          message |-> <<"diag.leg.msg", leftAngle, rightAngle>>,
                          futureRisk |-> "risk.leg.acl"] >>
                 ELSE <<>>])

\* The analyze of the test named id.
analyze(id, input, patientHeight) ==
  CASE id = "shoulder_mobility" -> shoulder_mobility(input)
    [] id = "neck_mobility"     -> neck_mobility(input)
    [] id = "wrist_mobility"    -> wrist_mobility(input)
    [] id = "posture_analysis"  -> posture_analysis(input, patientHeight)
    [] id = "shoulder_level"    -> shoulder_level(input)
    [] id = "forward_head"      -> forward_head(input)
    [] id = "leg_alignment"     -> leg_alignment(input)

(***************************************************************************)
(* Calls of the scoring engine: the arguments are drawn from the sets      *)
(* below, and a step evaluates the function called.                        *)
(***************************************************************************)
\* Values scored: absent, or a whole number, a half or a third.  On these
\* values and range ends the engine's floating-point results are the exact
\* ones.
ScoredValues ==
  {Absent} \cup
  {Present(Rat(n, d)) :
     n \in {-21, -20, -1, 0, 1, 3, 5, 7, 8, 9, 25, 45, 49, 50, 51,
            90, 179, 180, 181},
     d \in {1, 2, 3}}

\* Ends of the ranges scored against.
RangeEnds == {-20, 0, 8, 50, 180}

\* Lists of sub-scores averaged; negative entries stand for "not computed".
SubScores == {-5, -1, 0, 50, 80, 85, 100}
ScoreLists ==
  {<<>>} \cup {<<a>> : a \in SubScores}
         \cup {<<a, b>> : a \in SubScores, b \in SubScores}
         \cup {<<a, b, c>> : a \in SubScores, b \in SubScores, c \in SubScores}

\* Vectors whose direction is a multiple of 45 degrees, none of them zero.
Vectors ==
  {v \in (-2..2) \X (-2..2) :
     /\ v # <<0, 0>>
     /\ v[1] = 0 \/ v[2] = 0 \/ v[1] = v[2] \/ v[1] = -v[2]}

Pt(x, y) == [x |-> x, y |-> y]
Without(skeleton, names) == [k \in DOMAIN skeleton \ names |-> skeleton[k]]

\* A person standing upright, seen from the front: the left arm hangs
\* down, the right arm is held out and down at 45 degrees.
Upright ==
  ("leftShoulder" :> Pt(12, 10)) @@ ("rightShoulder" :> Pt(8, 10)) @@
  ("leftElbow" :> Pt(12, 14)) @@ ("rightElbow" :> Pt(4, 14)) @@
  ("nose" :> Pt(10, 6)) @@ ("leftEar" :> Pt(12, 8)) @@
  ("rightEar" :> Pt(8, 8)) @@ ("leftHip" :> Pt(12, 20)) @@
  ("rightHip" :> Pt(8, 20)) @@ ("leftAnkle" :> Pt(12, 30))

\* Skeletons and joint tokens angles are evaluated on.
AngleSkeletons ==
  {Upright, Without(Upright, {"leftElbow"}),
   Without(Upright, {"rightShoulder", "nose"})}

JointTokens ==
  {<<"vertical">>, <<"-", "vertical">>, <<"horizontal">>,
   <<"-", "horizontal">>, <<"leftBiceps">>, <<"-", "leftBiceps">>,
   <<"rightBiceps">>, <<"neck">>, <<"rightNeck">>, <<"leftForarm">>,
   <<"shoulders">>, <<"-", "shoulders">>}

\* Photos of the poses of a test.  Reaching raises both arms straight up
\* and bends the head to the side; Partial has lost the arms and the head;
\* NoBody is a photo in which no keypoint was detected.
Reaching ==
  ("leftElbow" :> Pt(12, 6)) @@ ("rightElbow" :> Pt(8, 6)) @@
  ("nose" :> Pt(14, 6)) @@ ("rightEar" :> Pt(12, 8)) @@ Upright
Partial == Without(Upright, {"leftElbow", "rightElbow", "nose", "rightEar"})
NoBody == Without(Upright, DOMAIN Upright)
PoseSkeletons == {Upright, Reaching, Partial, NoBody}

\* Front photos of the posture test: Mirrored has the left shoulder and hip
\* on the left of the image, Tilted drops the right shoulder by 45 degrees.
Mirrored ==
  ("leftShoulder" :> Pt(8, 10)) @@ ("rightShoulder" :> Pt(12, 10)) @@
  ("leftHip" :> Pt(8, 20)) @@ ("rightHip" :> Pt(12, 20)) @@
  ("leftEar" :> Pt(8, 8)) @@ ("rightEar" :> Pt(12, 8)) @@
  ("leftElbow" :> Pt(8, 14)) @@ ("rightElbow" :> Pt(16, 14)) @@
  ("leftAnkle" :> Pt(8, 30)) @@ Upright
Tilted == ("rightShoulder" :> Pt(12, 14)) @@ Mirrored
FrontSkeletons ==
  {Upright, Mirrored, Tilted, Without(Mirrored, {"leftHip", "rightHip"}),
   NoBody}

\* Side photos of the posture test: Leaning carries the ear and the
\* shoulder off the ankle's vertical, Lying has the ankle on the upper edge.
Leaning ==
  ("leftEar" :> Pt(13, 8)) @@ ("leftShoulder" :> Pt(14, 10)) @@ Upright
Lying == ("leftAnkle" :> Pt(12, 0)) @@ Without(Leaning, {"nose"})
SideSkeletons ==
  {Upright, Leaning, Without(Leaning, {"nose"}), Lying,
   Without(Leaning, {"leftEar"}), NoBody}

\* Photos of the single-photo tests: Standing has both legs straight,
\* Valgus has the left knee turned in, Slouched carries the ear forward.
Standing ==
  ("leftKnee" :> Pt(12, 26)) @@ ("rightKnee" :> Pt(8, 26)) @@
  ("rightAnkle" :> Pt(8, 30)) @@ Upright
Valgus == ("leftKnee" :> Pt(10, 22)) @@ ("leftAnkle" :> Pt(10, 26)) @@ Standing
Slouched == ("leftEar" :> Pt(10, 8)) @@ Mirrored
PhotoSkeletons ==
  {Standing, Valgus, Slouched, Mirrored, Tilted, Upright,
   Without(Standing, {"leftEar", "leftShoulder"}),
   Without(Standing, {"leftEar", "rightEar"}),
   Without(Standing, {"rightShoulder"}), NoBody}

\* Photos of the shoulder line: the right shoulder lies dx to the right of
\* the left one and dy below it.
Shoulders(dx, dy) ==
  ("leftShoulder" :> Pt(80, 40)) @@ ("rightShoulder" :> Pt(80 + dx, 40 + dy))
LevelSkeletons ==
  {Shoulders(dx, dy) : dx \in {-40, 40, 46, 60}, dy \in -16..16}

PatientHeights == {150, DefaultPatientHeight}

\* The pose ids of the multi-pose tests.
Poses(id) ==
  CASE id = "shoulder_mobility" ->
         {"frontShoulder", "leftShoulder", "rightShoulder",
          "leftShoulderBackward", "rightShoulderBackward"}
    [] id = "neck_mobility" ->
         {"neckRightSideBend", "neckLeftSideBend", "neckFrontBend",
          "neckBackBend"}
    [] id = "wrist_mobility" -> {"leftWristRadial", "rightWristRadial"}
    [] id = "posture_analysis" -> {"front", "side"}

\* The data maps that hold a photo from skeletons for some of the poses.
DataMaps(poses, skeletons) ==
  UNION {[present -> {[skeleton |-> sk] : sk \in skeletons}] :
           present \in SUBSET poses}

\* Joint tokens and photos vectors are resolved on.
ResolveTokens ==
  JointTokens \cup
  {<<"-", "neck">>, <<"leftNeck">>, <<"-", "rightNeck">>, <<"leftChest">>,
   <<"-", "-", "leftBiceps">>, <<"-">>}
ResolveSkeletons ==
  AngleSkeletons \cup
  {Reaching, Partial, NoBody, Without(Upright, {"leftShoulder"}),
   Without(Upright, {"leftEar", "rightEar"})}

Calling(fn, args) == [fn |-> fn, args |-> args, result |-> <<>>]

AnalyzeCalls ==
  {Calling("analyze", <<"shoulder_mobility", dataMap, DefaultPatientHeight>>) :
     dataMap \in DataMaps(Poses("shoulder_mobility"), PoseSkeletons)}
  \cup {Calling("analyze", <<"neck_mobility", dataMap, DefaultPatientHeight>>) :
          dataMap \in DataMaps(Poses("neck_mobility"), PoseSkeletons)}
  \cup {Calling("analyze", <<"wrist_mobility", dataMap, DefaultPatientHeight>>) :
          dataMap \in DataMaps(Poses("wrist_mobility"), {Upright, NoBody})}
  \cup {Calling("analyze", <<"posture_analysis", front @@ side, height>>) :
          front \in DataMaps({"front"}, FrontSkeletons),
          side \in DataMaps({"side"}, SideSkeletons),
          height \in PatientHeights}
  \cup {Calling("analyze", <<id, skeleton, DefaultPatientHeight>>) :
          id \in {"shoulder_level", "forward_head", "leg_alignment"},
          skeleton \in PhotoSkeletons}
  \cup {Calling("analyze", <<"shoulder_level", skeleton, DefaultPatientHeight>>) :
          skeleton \in LevelSkeletons}

Calls ==
  {Calling("getLinearScore", <<v, min, max>>) :
     v \in ScoredValues, min \in RangeEnds, max \in RangeEnds}
  \cup {Calling("getAverageScore", <<scores>>) : scores \in ScoreLists}
  \cup {Calling("computeAngleVector", <<vec1, vec2>>) :
          vec1 \in Vectors, vec2 \in Vectors}
  \cup {Calling("computeAngle",
                <<buildEnrichedSkeleton(skeleton),
                  AngleDef("leftShoulder", joint1, joint2, 0, 180)>>) :
          skeleton \in AngleSkeletons,
          joint1 \in JointTokens, joint2 \in JointTokens}
  \cup {Calling("resolveVector", <<jointName, skeleton>>) :
          jointName \in ResolveTokens, skeleton \in ResolveSkeletons}
  \cup AnalyzeCalls

\* The call has returned r.
Returned(fn) == call.fn = fn /\ call.result # <<>>
Return(r) ==
  /\ call.result = <<>>
  /\ call' = [call EXCEPT !.result = <<r>>]
  /\ UNCHANGED <<data, activeTool, editorData, draggingPointId,
                 connectingStartId, selectedElementIds, generated>>

GetLinearScore ==
  /\ call.fn = "getLinearScore"
  /\ Return(getLinearScore(call.args[1], call.args[2], call.args[3]))

GetAverageScore ==
  /\ call.fn = "getAverageScore"
  /\ Return(getAverageScore(call.args[1]))

ComputeAngleVector ==
  /\ call.fn = "computeAngleVector"
  /\ Return(computeAngleVector(call.args[1], call.args[2]))

ComputeAngle ==
  /\ call.fn = "computeAngle"
  /\ Return(computeAngle(call.args[1], call.args[2]))

\* resolveVector on the enriched skeleton of the photo.
ResolveVector ==
  /\ call.fn = "resolveVector"
  /\ Return(resolveVector(call.args[1], buildEnrichedSkeleton(call.args[2])))

Analyze ==
  /\ call.fn = "analyze"
  /\ Return(analyze(call.args[1], call.args[2], call.args[3]))

ScoreInit ==
  /\ EditorInit
  /\ data = {"nose", "leftShoulder"}
  /\ call \in Calls

ScoreNext ==
  \/ GetLinearScore
  \/ GetAverageScore
  \/ ComputeAngleVector
  \/ ComputeAngle
  \/ ResolveVector
  \/ Analyze

ScoreSpec == ScoreInit /\ [][ScoreNext]_vars

----------------------------------------------------------------------------
\* Properties of the editor.

Elems(seq) == {seq[i] : i \in 1..Len(seq)}
Full == {"nose", "leftShoulder", "rightShoulder", "leftHip"}
Joined(connections, a, b) ==
  \E k \in Elems(connections) : {k.from, k.to} = {a, b}
AppendedTo(old, new) ==
  Len(new) = Len(old) + 1 /\ SubSeq(new, 1, Len(old)) = old

\* C1: at every reachable state each connection's from and to, and each
\* angle's p1, center and p2, is the id of a point of the graph.
C1_ReferentialIntegrity ==
  /\ \A k \in Elems(editorData.connections) :
       {k.from, k.to} \subseteq Ids(editorData.points)
  /\ \A a \in Elems(editorData.angles) :
       {a.p1, a.center, a.p2} \subseteq Ids(editorData.points)

\* The point that both seeded connections started at is gone, and the
\* graph has a connection, drawn by hand between the two points left.
C1_Witness ==
  /\ data = Full
  /\ "leftShoulder" \notin Ids(editorData.points)
  /\ editorData.connections # <<>>

\* C2: at every reachable state no two connections join the same
\* unordered pair of points.
C2_OneConnectionPerPair ==
  \A i, j \in 1..Len(editorData.connections) :
    LET k == editorData.connections[i]
        m == editorData.connections[j]
    IN i # j => {k.from, k.to} # {m.from, m.to}

\* Under CONNECT a start is pending and a pointer-down hits the from end
\* of a connection that ends at the pending start; nothing is added.
C2_Witness ==
  /\ activeTool = "CONNECT"
  /\ connectingStartId # null
  /\ \E c \in DownPos :
       /\ \E k \in Elems(editorData.connections) :
            k.from = hitPointId(State, c) /\ k.to = connectingStartId
       /\ handleStart(State, c).editorData = editorData

\* C3: at every reachable state no two angles have the same center and
\* the same unordered pair of arms.
C3_OneAnglePerCorner ==
  \A i, j \in 1..Len(editorData.angles) :
    LET a == editorData.angles[i]
        b == editorData.angles[j]
    IN i # j => ~(a.center = b.center /\ {a.p1, a.p2} = {b.p1, b.p2})

\* Under ANGLE one connection is selected and a pointer-down hits another
\* that makes, with it, an angle the graph holds with its arms the other
\* way round; nothing is added.
C3_Witness ==
  /\ activeTool = "ANGLE"
  /\ Len(selectedElementIds) = 1
  /\ \E c \in DownPos :
       LET hitL == hitLineId(State, c)
       IN /\ hitL # null /\ hitL # selectedElementIds[1]
          /\ LET sv == sharedVertex(
                         findConn(editorData.connections, selectedElementIds[1]),
                         findConn(editorData.connections, hitL))
             IN \E a \in Elems(editorData.angles) :
                  a.center = sv.centerId /\ a.p1 = sv.p2Id /\ a.p2 = sv.p1Id
          /\ handleStart(State, c).editorData = editorData

\* C4: every step that changes the active tool leaves no dragged point,
\* no pending connection start and an empty selection, and so at every
\* reachable state a drag is seen only under MOVE, a pending start only
\* under CONNECT and a selection only under ANGLE.
C4_ToolChangeClears ==
  /\ [][activeTool' # activeTool =>
          /\ draggingPointId' = null
          /\ connectingStartId' = null
          /\ selectedElementIds' = <<>>]_vars
  /\ [](/\ draggingPointId # null => activeTool = "MOVE"
        /\ connectingStartId # null => activeTool = "CONNECT"
        /\ selectedElementIds # <<>> => activeTool = "ANGLE")

\* A drag is in progress, and changing to any other tool ends it.
C4_Witness ==
  /\ draggingPointId # null
  /\ \A tool \in EditorTool \ {activeTool} :
       toolChangeEffect([State EXCEPT !.activeTool = tool]).draggingPointId = null

\* C5: a DELETE pointer-down that hits point P and no angle label removes
\* P, exactly the connections that start or end at P and exactly the
\* angles that have P as p1, center or p2; every other point, connection
\* and angle stays as it was and in its place.
C5_DeletePointCascade ==
  \A c \in DownPos :
    LET P == hitPointId(State, c)
        ed == editorData
        r == handleStart(State, c).editorData
        Kept(old, new, Gone(_)) ==
          /\ Elems(new) = {e \in Elems(old) : ~Gone(e)}
          /\ Len(new) = Len(old) - Cardinality({i \in 1..Len(old) : Gone(old[i])})
          /\ \A i, j \in 1..Len(new) :
               i < j => \E m, n \in 1..Len(old) :
                          m < n /\ old[m] = new[i] /\ old[n] = new[j]
    IN (activeTool = "DELETE" /\ hitAngleId(State, c) = null /\ P # null) =>
         /\ Kept(ed.points, r.points, LAMBDA p : p.id = P)
         /\ Kept(ed.connections, r.connections,
                 LAMBDA k : k.from = P \/ k.to = P)
         /\ Kept(ed.angles, r.angles,
                 LAMBDA a : a.p1 = P \/ a.center = P \/ a.p2 = P)

\* Under DELETE a pointer-down hits a point that is an end of one
\* connection and the second arm of one angle, while another connection
\* does not touch it; the point, the connection and the angle go.
C5_Witness ==
  /\ activeTool = "DELETE"
  /\ \E c \in DownPos :
       LET P == hitPointId(State, c)
           r == handleStart(State, c).editorData
       IN /\ hitAngleId(State, c) = null /\ P # null
          /\ \E k \in Elems(editorData.connections) : k.to = P
          /\ \E k \in Elems(editorData.connections) : k.from # P /\ k.to # P
          /\ \E a \in Elems(editorData.angles) : a.p2 = P
          /\ P \notin Ids(r.points)
          /\ Len(r.connections) = Len(editorData.connections) - 1
          /\ Len(r.angles) = Len(editorData.angles) - 1

\* C6 as stated: under CONNECT, for distinct points A and B that no
\* connection joins, a pointer-down hitting A and then one hitting B add
\* exactly one connection, from A to B, whatever start was pending before;
\* the same two clicks again, or B and then A, add none.
C6_ConnectTwoClicks_AnyPending ==
  \A c1, c2 \in DownPos :
    LET A == hitPointId(State, c1)
        s1 == handleStart(State, c1)
        B == hitPointId(s1, c2)
        s2 == handleStart(s1, c2)
        new == s2.editorData.connections
    IN (/\ activeTool = "CONNECT"
        /\ A # null /\ B # null /\ A # B
        /\ ~Joined(editorData.connections, A, B)) =>
         /\ AppendedTo(s1.editorData.connections, new)
         /\ new[Len(new)].from = A /\ new[Len(new)].to = B
         /\ handleStart(handleStart(s2, c1), c2).editorData
              = s2.editorData
         /\ handleStart(handleStart(s2, c2), c1).editorData
              = s2.editorData

\* C6, amended: under CONNECT with no start pending, or A itself pending,
\* for distinct points A and B that no connection joins, a pointer-down
\* hitting A adds nothing and one hitting B after it adds exactly one
\* connection, from A to B, with an id no connection had; points and
\* angles stay as they were, the same two clicks again add no connection,
\* and neither do B and then A.
C6_ConnectTwoClicks ==
  \A c1, c2 \in DownPos :
    LET A == hitPointId(State, c1)
        s1 == handleStart(State, c1)
        B == hitPointId(s1, c2)
        s2 == handleStart(s1, c2)
        new == s2.editorData.connections
    IN (/\ activeTool = "CONNECT"
        /\ connectingStartId \in {null, A}
        /\ A # null /\ B # null /\ A # B
        /\ ~Joined(editorData.connections, A, B)) =>
         /\ s1.editorData = editorData
         /\ AppendedTo(editorData.connections, new)
         /\ new[Len(new)].from = A /\ new[Len(new)].to = B
         /\ new[Len(new)].id \notin Ids(editorData.connections)
         /\ s2.editorData.points = editorData.points
         /\ s2.editorData.angles = editorData.angles
         /\ handleStart(handleStart(s2, c1), c2).editorData
              = s2.editorData
         /\ handleStart(handleStart(s2, c2), c1).editorData
              = s2.editorData

\* Under CONNECT nothing is pending, two pointer-downs hit two points that
\* no connection joins, and the second adds the connection between them.
C6_Witness ==
  /\ activeTool = "CONNECT"
  /\ connectingStartId = null
  /\ \E c1, c2 \in DownPos :
       LET A == hitPointId(State, c1)
           B == hitPointId(State, c2)
           s2 == handleStart(handleStart(State, c1), c2)
       IN /\ A # null /\ B # null /\ A # B
          /\ ~Joined(editorData.connections, A, B)
          /\ \E k \in Elems(s2.editorData.connections) : k.from = A /\ k.to = B

\* C7: under ANGLE, with one connection selected, a pointer-down hitting
\* another connection that shares exactly one end with it empties the
\* selection and leaves points and connections alone; if no angle had the
\* shared end as center and the two other ends as arms, exactly one such
\* angle is appended, and otherwise the angles stay as they were.
C7_AngleOfTwoConnections ==
  \A c \in DownPos :
    LET hitL == hitLineId(State, c)
        ed == editorData
        r == handleStart(State, c)
        new == r.editorData.angles
    IN (/\ activeTool = "ANGLE"
        /\ Len(selectedElementIds) = 1
        /\ HasConn(ed.connections, selectedElementIds[1])
        /\ hitL # null /\ hitL # selectedElementIds[1]) =>
         LET conn1 == findConn(ed.connections, selectedElementIds[1])
             conn2 == findConn(ed.connections, hitL)
             ends1 == {conn1.from, conn1.to}
             ends2 == {conn2.from, conn2.to}
             arms == (ends1 \cup ends2) \ (ends1 \cap ends2)
         IN Cardinality(ends1 \cap ends2) = 1 =>
              /\ r.selectedElementIds = <<>>
              /\ r.editorData.points = ed.points
              /\ r.editorData.connections = ed.connections
              /\ IF \E a \in Elems(ed.angles) :
                      {a.center} = ends1 \cap ends2 /\ {a.p1, a.p2} = arms
                   THEN new = ed.angles
                   ELSE /\ AppendedTo(ed.angles, new)
                        /\ {new[Len(new)].center} = ends1 \cap ends2
                        /\ {new[Len(new)].p1, new[Len(new)].p2} = arms
                        /\ new[Len(new)].id \notin Ids(ed.angles)

\* Under ANGLE a connection is selected and a pointer-down hits another
\* that ends where it ends; the angle at that end is added.
C7_Witness ==
  /\ activeTool = "ANGLE"
  /\ Len(selectedElementIds) = 1
  /\ \E c \in DownPos :
       LET hitL == hitLineId(State, c)
           r == handleStart(State, c)
       IN /\ hitL # null /\ hitL # selectedElementIds[1]
          /\ findConn(editorData.connections, selectedElementIds[1]).to
               = findConn(editorData.connections, hitL).to
          /\ Len(r.editorData.angles) = Len(editorData.angles) + 1
          /\ r.selectedElementIds = <<>>

\* C8: a pointer-move changes the graph only under MOVE with a point
\* being dragged, and then sets that point's x and y to the cursor's
\* normalized position, whether or not it lies within the image; ids,
\* other points, connections and angles stay as they were.
C8_MoveOnlyDraggedPoint ==
  \A c \in MovePos :
    LET r == handleMove(State, c).editorData
        ed == editorData
    IN /\ r.connections = ed.connections
       /\ r.angles = ed.angles
       /\ Len(r.points) = Len(ed.points)
       /\ \A i \in 1..Len(ed.points) :
            IF /\ activeTool = "MOVE" /\ draggingPointId # null
               /\ ed.points[i].id = draggingPointId
              THEN r.points[i] = [id |-> draggingPointId,
                                  x |-> c.x - layout.offsetX,
                                  y |-> c.y - layout.offsetY]
              ELSE r.points[i] = ed.points[i]

\* A point has been dragged to the right of the image, its x above 1,
\* and the drag goes on.
C8_Witness ==
  /\ activeTool = "MOVE"
  /\ draggingPointId # null
  /\ \E p \in Elems(editorData.points) :
       p.id = draggingPointId /\ p.x > layout.renderW
  /\ \E p \in Elems(editorData.points) : p.id # draggingPointId

\* C9: a pointer-up leaves no dragged point under any tool; while no
\* point is dragged a pointer-move changes nothing; and a point becomes
\* the dragged one only at a step taken under MOVE from a state where a
\* pointer-down hits it.
C9_PointerUpEndsDrag ==
  /\ [](/\ handleEnd(State).draggingPointId = null
        /\ draggingPointId = null =>
             \A c \in MovePos : handleMove(State, c) = State)
  /\ [][(draggingPointId' # null /\ draggingPointId' # draggingPointId) =>
          /\ activeTool = "MOVE"
          /\ \E c \in DownPos : hitPointId(State, c) = draggingPointId']_vars

\* A point is being dragged away from where it was seeded, and a
\* pointer-up ends the drag.
C9_Witness ==
  /\ draggingPointId # null
  /\ editorData.points # initPoints(data)
  /\ handleEnd(State).draggingPointId = null

\* C10: under ADD_POINT a pointer-down adds a point if and only if no
\* point is hit and the cursor's normalized position lies in [0,1]x[0,1],
\* edges included; the point is appended at that position with an id no
\* point had, and every other point, every connection and every angle
\* stays as it was.
C10_AddPoint ==
  \A c \in DownPos :
    LET r == handleStart(State, c).editorData
        ed == editorData
        free == hitPointId(State, c) = null
        inside == /\ 0 <= c.x - layout.offsetX
                  /\ c.x - layout.offsetX <= layout.renderW
                  /\ 0 <= c.y - layout.offsetY
                  /\ c.y - layout.offsetY <= layout.renderH
    IN activeTool = "ADD_POINT" =>
         /\ r.connections = ed.connections
         /\ r.angles = ed.angles
         /\ IF free /\ inside
              THEN /\ AppendedTo(ed.points, r.points)
                   /\ r.points[Len(r.points)].x = c.x - layout.offsetX
                   /\ r.points[Len(r.points)].y = c.y - layout.offsetY
                   /\ r.points[Len(r.points)].id \notin Ids(ed.points)
              ELSE r.points = ed.points

\* Under ADD_POINT one pointer-down misses every point on the image's
\* left edge and adds a point there, another misses every point to the
\* right of the image and adds none, and a third hits a point.
C10_Witness ==
  /\ activeTool = "ADD_POINT"
  /\ \E c \in DownPos :
       /\ hitPointId(State, c) = null /\ c.x = layout.offsetX
       /\ Len(handleStart(State, c).editorData.points)
            = Len(editorData.points) + 1
  /\ \E c \in DownPos :
       /\ hitPointId(State, c) = null /\ c.x > layout.offsetX + layout.renderW
       /\ handleStart(State, c) = State
  /\ \E c \in DownPos : hitPointId(State, c) # null

\* C11: under MOVE, CONNECT, ANGLE and DELETE a pointer-down that hits no
\* point, no connection and no angle label leaves points, connections and
\* angles as they were; so does a CONNECT pointer-down that would join two
\* points a connection joins already, and an ANGLE pointer-down that would
\* make an angle the graph holds already; in each case the handler ends in
\* a state with the same tool and id count.
C11_MissesAndDuplicatesAreNoOps ==
  \A c \in DownPos :
    LET r == handleStart(State, c)
        hitP == hitPointId(State, c)
        hitL == hitLineId(State, c)
        miss == hitP = null /\ hitL = null /\ hitAngleId(State, c) = null
        ends(id) == LET k == findConn(editorData.connections, id)
                    IN {k.from, k.to}
        dupConnection ==
          /\ activeTool = "CONNECT"
          /\ connectingStartId # null /\ hitP # null
          /\ Joined(editorData.connections, connectingStartId, hitP)
        dupAngle ==
          /\ activeTool = "ANGLE"
          /\ Len(selectedElementIds) = 1 /\ hitL # null
          /\ hitL # selectedElementIds[1]
          /\ \E a \in Elems(editorData.angles) :
               /\ {a.center} = ends(selectedElementIds[1]) \cap ends(hitL)
               /\ {a.p1, a.p2} = (ends(selectedElementIds[1]) \cup ends(hitL))
                                   \ {a.center}
    IN ((activeTool # "ADD_POINT" /\ miss) \/ dupConnection \/ dupAngle) =>
         /\ r.editorData = editorData
         /\ r.activeTool = activeTool
         /\ r.generated = generated

\* Under CONNECT a start is pending, one pointer-down hits a point that a
\* connection joins to it, and another hits nothing at all.
C11_Witness ==
  /\ activeTool = "CONNECT"
  /\ connectingStartId # null
  /\ \E c \in DownPos :
       /\ hitPointId(State, c) \notin {null, connectingStartId}
       /\ Joined(editorData.connections, connectingStartId, hitPointId(State, c))
  /\ \E c \in DownPos :
       /\ hitPointId(State, c) = null /\ hitLineId(State, c) = null
       /\ hitAngleId(State, c) = null

\* The sequence new is old without its entries that are Gone, the others
\* in their order.
Removed(old, new, gone) ==
  /\ Elems(new) = Elems(old) \ gone
  /\ Len(new) = Len(old) - Cardinality({i \in 1..Len(old) : old[i] \in gone})
  /\ \A i, j \in 1..Len(new) :
       i < j => \E m, n \in 1..Len(old) :
                  m < n /\ old[m] = new[i] /\ old[n] = new[j]

\* C23: a DELETE pointer-down that hits connection C between points A and
\* B, and no angle label and no point, removes exactly C and exactly the
\* angles that have center A with B as an arm or center B with A as an
\* arm; all points, all other connections and all other angles, those
\* that have A and B as their two arms among them, stay as they were.
C23_DeleteConnectionCascade ==
  \A c \in DownPos :
    LET hitL == hitLineId(State, c)
        ed == editorData
        r == handleStart(State, c).editorData
    IN (/\ activeTool = "DELETE"
        /\ hitAngleId(State, c) = null /\ hitPointId(State, c) = null
        /\ hitL # null) =>
         \E C \in Elems(ed.connections) :
           /\ C.id = hitL
           /\ r.points = ed.points
           /\ Removed(ed.connections, r.connections, {C})
           /\ Removed(ed.angles, r.angles,
                       {a \in Elems(ed.angles) :
                          \/ a.center = C.from /\ C.to \in {a.p1, a.p2}
                          \/ a.center = C.to /\ C.from \in {a.p1, a.p2}})
           /\ \A a \in Elems(ed.angles) :
                {a.p1, a.p2} = {C.from, C.to} => a \in Elems(r.angles)

\* Under DELETE a pointer-down hits nothing but a connection whose two
\* ends are the arms of an angle; the connection goes and the angle stays.
C23_Witness ==
  /\ activeTool = "DELETE"
  /\ \E c \in DownPos :
       LET hitL == hitLineId(State, c)
           r == handleStart(State, c).editorData
       IN /\ hitAngleId(State, c) = null /\ hitPointId(State, c) = null
          /\ hitL # null
          /\ \E a \in Elems(editorData.angles) :
               /\ {a.p1, a.p2} = {findConn(editorData.connections, hitL).from,
                                  findConn(editorData.connections, hitL).to}
               /\ a \in Elems(r.angles)
          /\ hitL \notin Ids(r.connections)

\* C24: DELETE takes an angle label before a point and a point before a
\* connection: a pointer-down that hits an angle label removes that angle
\* only, whatever point or connection it hits as well; one that hits a
\* point and a connection but no angle label deletes the point with its
\* cascade, and not just the connection hit.
C24_DeletePriority ==
  \A c \in DownPos :
    LET hitA == hitAngleId(State, c)
        hitP == hitPointId(State, c)
        hitL == hitLineId(State, c)
        ed == editorData
        r == handleStart(State, c).editorData
    IN activeTool = "DELETE" =>
         /\ hitA # null =>
              /\ r.points = ed.points
              /\ r.connections = ed.connections
              /\ Removed(ed.angles, r.angles,
                          {a \in Elems(ed.angles) : a.id = hitA})
              /\ Len(r.angles) = Len(ed.angles) - 1
         /\ (hitA = null /\ hitP # null /\ hitL # null) =>
              /\ Removed(ed.points, r.points,
                          {p \in Elems(ed.points) : p.id = hitP})
              /\ Len(r.points) = Len(ed.points) - 1
              /\ Removed(ed.connections, r.connections,
                          {k \in Elems(ed.connections) : hitP \in {k.from, k.to}})
              /\ Removed(ed.angles, r.angles,
                          {a \in Elems(ed.angles) :
                             hitP \in {a.p1, a.center, a.p2}})

\* Under DELETE a pointer-down hits an angle label, a point and a
\* connection at once, and only the angle goes.
C24_Witness ==
  /\ activeTool = "DELETE"
  /\ \E c \in DownPos :
       LET r == handleStart(State, c).editorData
       IN /\ hitAngleId(State, c) # null
          /\ hitPointId(State, c) # null
          /\ hitLineId(State, c) # null
          /\ r.points = editorData.points
          /\ r.connections = editorData.connections
          /\ Len(r.angles) = Len(editorData.angles) - 1

\* C25: under ANGLE a pointer-down on a connection toggles it in the
\* selection, so that a second one on the only selected connection
\* empties the selection; when the connection hit shares no end with the
\* one selected, no angle is made and the selection becomes the
\* connection hit, alone; a pointer-down that hits no connection empties
\* the selection.  The graph stays as it was in each of these cases.
C25_AngleSelection ==
  \A c \in DownPos :
    LET hitL == hitLineId(State, c)
        sel == selectedElementIds
        r == handleStart(State, c)
        ends(id) == LET k == findConn(editorData.connections, id)
                    IN {k.from, k.to}
    IN activeTool = "ANGLE" =>
         /\ hitL = null =>
              r.selectedElementIds = <<>> /\ r.editorData = editorData
         /\ (hitL # null /\ sel = <<>>) =>
              r.selectedElementIds = <<hitL>> /\ r.editorData = editorData
         /\ (hitL # null /\ sel = <<hitL>>) =>
              r.selectedElementIds = <<>> /\ r.editorData = editorData
         /\ (hitL # null /\ Len(sel) = 1 /\ sel # <<hitL>>
               /\ ends(sel[1]) \cap ends(hitL) = {}) =>
              /\ r.selectedElementIds = <<hitL>>
              /\ r.editorData = editorData
              /\ r.generated = generated

\* Under ANGLE one connection is selected and a pointer-down hits another
\* that shares no end with it: the selection becomes the one hit.
C25_Witness ==
  /\ activeTool = "ANGLE"
  /\ Len(selectedElementIds) = 1
  /\ \E c \in DownPos :
       LET hitL == hitLineId(State, c)
           k == findConn(editorData.connections, selectedElementIds[1])
       IN /\ hitL # null /\ hitL # selectedElementIds[1]
          /\ {k.from, k.to}
               \cap {findConn(editorData.connections, hitL).from,
                     findConn(editorData.connections, hitL).to} = {}
          /\ handleStart(State, c).selectedElementIds = <<hitL>>

\* C26: under CONNECT with a start S pending, a pointer-down that hits
\* another point T leaves no start pending, whether it made the connection
\* from S to T or found S and T joined already; one that hits S makes no
\* connection and leaves S pending; one that hits no point leaves no
\* start pending; and no connection ever joins a point to itself.
C26_PendingStart ==
  /\ \A k \in Elems(editorData.connections) : k.from # k.to
  /\ \A c \in DownPos :
       LET S == connectingStartId
           T == hitPointId(State, c)
           r == handleStart(State, c)
           new == r.editorData.connections
       IN (activeTool = "CONNECT" /\ S # null) =>
            /\ T \notin {null, S} =>
                 /\ r.connectingStartId = null
                 /\ IF Joined(editorData.connections, S, T)
                      THEN r.editorData = editorData
                      ELSE /\ AppendedTo(editorData.connections, new)
                           /\ new[Len(new)].from = S /\ new[Len(new)].to = T
            /\ T = S => r.editorData = editorData /\ r.connectingStartId = S
            /\ T = null =>
                 r.editorData = editorData /\ r.connectingStartId = null

\* Under CONNECT a start is pending; one pointer-down hits a point joined
\* to it and another a point not joined to it, and both leave no start
\* pending; a third hits the start, which stays pending.
C26_Witness ==
  /\ activeTool = "CONNECT"
  /\ connectingStartId # null
  /\ \E c \in DownPos :
       /\ hitPointId(State, c) \notin {null, connectingStartId}
       /\ Joined(editorData.connections, connectingStartId, hitPointId(State, c))
       /\ handleStart(State, c).connectingStartId = null
  /\ \E c \in DownPos :
       /\ hitPointId(State, c) \notin {null, connectingStartId}
       /\ ~Joined(editorData.connections, connectingStartId, hitPointId(State, c))
       /\ handleStart(State, c).connectingStartId = null
  /\ \E c \in DownPos :
       /\ hitPointId(State, c) = connectingStartId
       /\ handleStart(State, c).connectingStartId = connectingStartId

\* C27: in every reachable state the dragged point and the pending
\* connection start, when there is one, are points of the graph, and every
\* id selected is the id of a connection of the graph: only a DELETE
\* pointer-down takes a point or a connection away, and under DELETE
\* nothing is dragged, pending or selected.
C27_TransientStateNeverDangles ==
  /\ draggingPointId # null => draggingPointId \in Ids(editorData.points)
  /\ connectingStartId # null => connectingStartId \in Ids(editorData.points)
  /\ Elems(selectedElementIds) \subseteq Ids(editorData.connections)
  /\ activeTool = "DELETE" =>
       /\ draggingPointId = null
       /\ connectingStartId = null
       /\ selectedElementIds = <<>>
  /\ activeTool # "DELETE" =>
       \A c \in DownPos :
         LET r == handleStart(State, c).editorData
         IN /\ Ids(editorData.points) \subseteq Ids(r.points)
            /\ Ids(editorData.connections) \subseteq Ids(r.connections)

\* A connection is selected under ANGLE after one of the seeded
\* connections has been deleted.
C27_Witness ==
  /\ activeTool = "ANGLE"
  /\ Len(selectedElementIds) = 1
  /\ selectedElementIds[1] \in Ids(editorData.connections)
  /\ \E k \in Elems(initEditorData(data).connections) :
       k.id \notin Ids(editorData.connections)

\* C28: in every reachable state the selection holds at most one
\* connection id, and none unless the active tool is ANGLE: no pointer-down
\* leaves two ids selected.
C28_AtMostOneSelected ==
  /\ Len(selectedElementIds) <= 1
  /\ activeTool # "ANGLE" => selectedElementIds = <<>>

\* Under ANGLE one connection is selected and a pointer-down hits another
\* that shares an end with it; the angle is made and nothing stays
\* selected.
C28_Witness ==
  /\ activeTool = "ANGLE"
  /\ Len(selectedElementIds) = 1
  /\ \E c \in DownPos :
       LET hitL == hitLineId(State, c)
           r == handleStart(State, c)
       IN /\ hitL # null /\ hitL # selectedElementIds[1]
          /\ Len(r.editorData.angles) = Len(editorData.angles) + 1
          /\ r.selectedElementIds = <<>>

\* C29: in every reachable state each angle has its two arms behind it:
\* p1, center and p2 are three different points, a connection joins
\* center and p1 and a connection joins center and p2.
C29_AnglesBackedByArms ==
  \A a \in Elems(editorData.angles) :
    /\ a.p1 # a.center /\ a.p2 # a.center /\ a.p1 # a.p2
    /\ Joined(editorData.connections, a.center, a.p1)
    /\ Joined(editorData.connections, a.center, a.p2)

\* Under DELETE a pointer-down hits nothing but a connection that is an
\* arm of an angle, and the angle goes with the connection.
C29_Witness ==
  /\ activeTool = "DELETE"
  /\ \E c \in DownPos :
       LET hitL == hitLineId(State, c)
           r == handleStart(State, c).editorData
       IN /\ hitAngleId(State, c) = null /\ hitPointId(State, c) = null
          /\ hitL # null
          /\ \E a \in Elems(editorData.angles) :
               /\ {a.center, a.p1}
                    = {findConn(editorData.connections, hitL).from,
                       findConn(editorData.connections, hitL).to}
               /\ a \notin Elems(r.angles)

----------------------------------------------------------------------------
\* Properties of the scoring engine.

\* r is x rounded to the nearest whole number, halves going up, for
\* x = n / d with d > 0.
Rounds(r, n, d) == (2 * r - 1) * d <= 2 * n /\ 2 * n < (2 * r + 1) * d

\* C12: linearScore returns a whole number from 0 to 100 for every value,
\* absent included, and every pair min, max, ascending (min <= max, among
\* them max <= 0 and min = max) or descending (min > max).
C12_LinearScoreRange ==
  Returned("getLinearScore") => call.result[1] \in 0..100

\* linearScore has returned 100 for a value above 0 in a range with
\* min = max < 0.
C12_Witness ==
  /\ Returned("getLinearScore")
  /\ call.args[1] # Absent
  /\ call.args[3] < 0
  /\ call.args[2] = call.args[3]
  /\ call.args[1][1].n > 0
  /\ call.result[1] = 100

\* C13: in an ascending range (min <= max) linearScore is 0 for a value
\* <= 0, else 100 for a value >= max, else value * 100 / max rounded, and
\* it is the same for every other min <= max.
C13_AscendingIgnoresMin ==
  (Returned("getLinearScore") /\ call.args[1] # Absent
     /\ call.args[2] <= call.args[3]) =>
    LET v == call.args[1][1]
        max == call.args[3]
        r == call.result[1]
    IN /\ IF v.n <= 0 THEN r = 0
          ELSE IF v.n >= max * v.d THEN r = 100
          ELSE Rounds(r, v.n * 100, max * v.d)
       /\ \A min2 \in RangeEnds :
            min2 <= max => getLinearScore(call.args[1], min2, max) = r
       /\ (max = 180 /\ v.d = 1 /\ v.n \in {0, 90, 180}) =>
            r = (CASE v.n = 0 -> 0 [] v.n = 90 -> 50 [] v.n = 180 -> 100)

\* linearScore has returned 3 for the value 5 in the range from 50 to
\* 180, where 5 lies below min and 5 * 100 / 180 is rounded up.
C13_Witness ==
  /\ Returned("getLinearScore")
  /\ call.args = <<Present(Rat(5, 1)), 50, 180>>
  /\ call.result[1] = 3

\* C14: in a descending range (min > max) linearScore is 100 for a value
\* <= max, 0 for a value >= min and (value - min) / (max - min) * 100
\* rounded in between, and no larger value has a larger score.
C14_Descending ==
  (Returned("getLinearScore") /\ call.args[1] # Absent
     /\ call.args[2] > call.args[3]) =>
    LET v == call.args[1][1]
        min == call.args[2]
        max == call.args[3]
        r == call.result[1]
    IN /\ IF v.n <= max * v.d THEN r = 100
          ELSE IF v.n >= min * v.d THEN r = 0
          ELSE Rounds(r, (min * v.d - v.n) * 100, (min - max) * v.d)
       /\ \A w \in ScoredValues \ {Absent} :
            w[1].n * v.d >= v.n * w[1].d => getLinearScore(w, min, max) <= r
       /\ (min = 50 /\ max = 0 /\ v.d = 1 /\ v.n \in {0, 25, 50}) =>
            r = (CASE v.n = 0 -> 100 [] v.n = 25 -> 50 [] v.n = 50 -> 0)

\* linearScore has returned 50 for the value 25 in the range from 50
\* down to 0.
C14_Witness ==
  /\ Returned("getLinearScore")
  /\ call.args = <<Present(Rat(25, 1)), 50, 0>>
  /\ call.result[1] = 50

\* The entries of a list that are not negative, and their sum.
NonNegative(scores) == {i \in 1..Len(scores) : scores[i] >= 0}
RECURSIVE SumOver(_, _)
SumOver(scores, I) ==
  IF I = {} THEN 0
  ELSE LET i == CHOOSE j \in I : TRUE
       IN scores[i] + SumOver(scores, I \ {i})

\* C15: averageScore is the mean, rounded, of the entries that are not
\* negative, and 0 when there are none; a list with a negative entry
\* taken out or put in, anywhere, has the same average.
C15_AverageIgnoresNegatives ==
  Returned("getAverageScore") =>
    LET scores == call.args[1]
        r == call.result[1]
        keep == NonNegative(scores)
    IN /\ IF keep = {} THEN r = 0
          ELSE Rounds(r, SumOver(scores, keep), Cardinality(keep))
       /\ \A i \in 1..Len(scores) :
            scores[i] < 0 =>
              getAverageScore(SubSeq(scores, 1, i - 1)
                                \o SubSeq(scores, i + 1, Len(scores))) = r
       /\ \A i \in 0..Len(scores), neg \in {sc \in SubScores : sc < 0} :
            getAverageScore(SubSeq(scores, 1, i) \o <<neg>>
                              \o SubSeq(scores, i + 1, Len(scores))) = r
       /\ scores = <<>> => r = 0
       /\ scores = <<-1, -1>> => r = 0
       /\ scores = <<80, -1, 100>> => r = 90

\* averageScore has returned 90 for the list 80, -1, 100.
C15_Witness ==
  /\ Returned("getAverageScore")
  /\ call.args[1] = <<80, -1, 100>>
  /\ call.result[1] = 90

\* The poses of a multi-pose test with the angles measured on each.
PoseAngles(id) ==
  CASE id = "shoulder_mobility" ->
         << [pose |-> "frontShoulder", defs |-> <<FRONT_LEFT, FRONT_RIGHT>>],
            [pose |-> "leftShoulder", defs |-> <<LEFT_FWD>>],
            [pose |-> "rightShoulder", defs |-> <<RIGHT_FWD>>],
            [pose |-> "leftShoulderBackward", defs |-> <<LEFT_BWD>>],
            [pose |-> "rightShoulderBackward", defs |-> <<RIGHT_BWD>>] >>
    [] id = "neck_mobility" ->
         << [pose |-> "neckRightSideBend", defs |-> <<NECK_RIGHT_SIDE>>],
            [pose |-> "neckLeftSideBend", defs |-> <<NECK_LEFT_SIDE>>],
            [pose |-> "neckFrontBend", defs |-> <<NECK_FRONT>>],
            [pose |-> "neckBackBend", defs |-> <<NECK_BACK>>] >>

\* The angle of def on the photo of pose, absent when there is no photo or
\* a keypoint of the angle is missing.
PoseAngle(dataMap, pose, def) ==
  IF ~Has(dataMap, pose) THEN Absent
  ELSE computeAngle(buildEnrichedSkeleton(dataMap[pose].skeleton), def)

\* The angles of a pose that can be computed, and the pose's sub-score:
\* the rounded mean of the scores of those angles.
Computable(dataMap, entry) ==
  {k \in 1..Len(entry.defs) :
     PoseAngle(dataMap, entry.pose, entry.defs[k]) # Absent}
AngleScores(dataMap, entry) ==
  [k \in 1..Len(entry.defs) |->
     LET angle == PoseAngle(dataMap, entry.pose, entry.defs[k])
     IN IF angle = Absent THEN -1
        ELSE getLinearScore(Whole(angle[1]), entry.defs[k].min,
                            entry.defs[k].max)]
SubScore(dataMap, entry) ==
  LET keep == Computable(dataMap, entry)
  IN CHOOSE sub \in 0..100 :
       Rounds(sub, SumOver(AngleScores(dataMap, entry), keep),
              Cardinality(keep))

\* C16: in the analyze of the shoulder-mobility and neck-mobility tests,
\* the report's score is the rounded mean of the sub-scores of the poses
\* that can be computed, and of those only: a pose without a photo or
\* without a computable angle, the front-shoulder pose with both angles
\* uncomputable included, adds nothing to the average.
C16_UncomputableAddsNothing ==
  Returned("analyze")
    /\ call.args[1] \in {"shoulder_mobility", "neck_mobility"} =>
      LET dataMap == call.args[2]
          table == PoseAngles(call.args[1])
          keep == {i \in 1..Len(table) : Computable(dataMap, table[i]) # {}}
          subs == [i \in 1..Len(table) |->
                     IF i \in keep THEN SubScore(dataMap, table[i]) ELSE -1]
      IN keep # {} =>
           /\ call.result[1] # Absent
           /\ Rounds(call.result[1][1].score, SumOver(subs, keep),
                     Cardinality(keep))

\* The keypoints the angles and measurements of a multi-pose test are
\* taken from.
Needed(id) ==
  CASE id = "shoulder_mobility" ->
         {"leftShoulder", "leftElbow", "rightShoulder", "rightElbow"}
    [] id = "neck_mobility" ->
         {"leftShoulder", "rightShoulder", "nose", "rightEar"}
    [] id = "posture_analysis" ->
         {"leftShoulder", "rightShoulder", "leftHip", "rightHip",
          "leftAnkle", "leftEar", "nose"}

\* C17: the analyze of the shoulder-mobility, neck-mobility and posture
\* tests returns no report when no pose has a photo, or when no photo
\* holds any of the keypoints the test needs.
C17_NoReportWithoutKeypoints ==
  Returned("analyze")
    /\ call.args[1] \in {"shoulder_mobility", "neck_mobility",
                         "posture_analysis"} =>
      LET dataMap == call.args[2]
      IN (\A pose \in DOMAIN dataMap :
            DOMAIN dataMap[pose].skeleton \cap Needed(call.args[1]) = {})
           => call.result[1] = Absent

\* C18: every report returned by the analyze of any test, the wrist test
\* included, has a score from 0 to 100.
C18_ReportScoreRange ==
  Returned("analyze") /\ call.result[1] # Absent =>
    call.result[1][1].score \in 0..100

\* The direction of a vector, counted in steps of 45 degrees from the
\* x axis towards the y axis.
Octant(v) ==
  CASE v[1] > 0 /\ v[2] = 0 -> 0
    [] v[1] > 0 /\ v[2] > 0 -> 1
    [] v[1] = 0 /\ v[2] > 0 -> 2
    [] v[1] < 0 /\ v[2] > 0 -> 3
    [] v[1] < 0 /\ v[2] = 0 -> 4
    [] v[1] < 0 /\ v[2] < 0 -> 5
    [] v[1] = 0 /\ v[2] < 0 -> 6
    [] v[1] > 0 /\ v[2] < 0 -> 7

C20_EvaluateSwapsArguments ==
  Returned("computeAngle") =>
    LET kps == call.args[1]
        def == call.args[2]
        v1 == resolveVector(def.joint1, kps)
        v2 == resolveVector(def.joint2, kps)
        exchanged == [def EXCEPT !.joint1 = def.joint2, !.joint2 = def.joint1]
        r == call.result[1]
    IN IF v1 = Absent \/ v2 = Absent
         THEN r = Absent
         ELSE /\ r = Present(((Octant(v1[1]) - Octant(v2[1])) % 8) * 45)
              /\ r = Present(computeAngleVector(v2[1], v1[1]))
              /\ computeAngle(kps, exchanged) = Present((360 - r[1]) % 360)

\* evaluate has returned 45 for joint1 = rightBiceps and joint2 =
\* vertical on the upright skeleton, whose right arm is 45 degrees on
\* from straight down.
C20_Witness ==
  /\ Returned("computeAngle")
  /\ call.args[1] = buildEnrichedSkeleton(Upright)
  /\ call.args[2].joint1 = <<"rightBiceps">>
  /\ call.args[2].joint2 = <<"vertical">>
  /\ call.result[1] = Present(45)

\* The keypoints a point of the enriched skeleton is made of.
MadeOf(kp) ==
  CASE kp = "manubrium" -> {"leftShoulder", "rightShoulder"}
    [] kp = "pubis"     -> {"leftHip", "rightHip"}
    [] OTHER            -> {kp}

\* C21: the resolver returns the four fixed unit vectors for the axis
\* tokens; for a joint token it returns endpoint B minus endpoint A, and
\* the negated vector for the same token prefixed with "-"; it returns
\* absent exactly when the un-prefixed name is not in the dictionary or an
\* endpoint is missing from the enriched skeleton, so that a neck joint
\* resolves only when both shoulders and its head keypoint are in the photo.
C21_ResolveVector ==
  Returned("resolveVector") =>
    LET jointName == call.args[1]
        skeleton == call.args[2]
        kps == buildEnrichedSkeleton(skeleton)
        r == call.result[1]
        prefixed == Len(jointName) > 1 /\ jointName[1] = "-"
        name == IF prefixed THEN Tail(jointName) ELSE jointName
        known == Len(name) = 1 /\ name[1] \in DOMAIN JOINT_DICT
    IN CASE jointName = <<"vertical">>        -> r = <<<<0, 1>>>>
         [] jointName = <<"-", "vertical">>   -> r = <<<<0, -1>>>>
         [] jointName = <<"horizontal">>      -> r = <<<<1, 0>>>>
         [] jointName = <<"-", "horizontal">> -> r = <<<<-1, 0>>>>
         [] OTHER ->
              /\ r = Absent <=>
                   \/ ~known
                   \/ JOINT_DICT[name[1]].kp1 \notin DOMAIN kps
                   \/ JOINT_DICT[name[1]].kp2 \notin DOMAIN kps
              /\ r # Absent =>
                   LET a == kps[JOINT_DICT[name[1]].kp1]
                       b == kps[JOINT_DICT[name[1]].kp2]
                       plain == resolveVector(name, kps)
                   IN /\ ~prefixed => r[1] = <<b.x - a.x, b.y - a.y>>
                      /\ prefixed => /\ plain # Absent
                                     /\ r[1] = <<-plain[1][1], -plain[1][2]>>
                      /\ MadeOf(JOINT_DICT[name[1]].kp1)
                           \cup MadeOf(JOINT_DICT[name[1]].kp2)
                           \subseteq DOMAIN skeleton
              /\ known /\ name[1] \in {"leftNeck", "rightNeck", "neck"} =>
                   (r # Absent <=>
                      {"leftShoulder", "rightShoulder",
                       JOINT_DICT[name[1]].kp2} \subseteq DOMAIN skeleton)

\* The resolver has returned the vector from the sternal midpoint to the
\* nose for the neck joint, and the call was for the prefixed token, so
\* that the vector is the negated one.
C21_Witness ==
  /\ Returned("resolveVector")
  /\ call.args[1] = <<"-", "neck">>
  /\ call.args[2] = Upright
  /\ call.result[1] = <<<<0, 4>>>>

\* C22: the shoulder-level test maps the rounded deviation d to its report
\* by bands: d <= 2 gives score 100 and no warning; 3 <= d <= 5 gives
\* score 90, the mild title and one low warning; d > 5 gives score
\* max(0, 100 - 5d) and one warning, medium up to 10 and high above; the
\* score never rises as d rises.
C22_ShoulderLevelBands ==
  Returned("analyze") /\ call.args[1] = "shoulder_level"
    /\ {"leftShoulder", "rightShoulder"} \subseteq DOMAIN call.args[2] =>
      LET d == calculateHorizontalDeviation(call.args[2]["leftShoulder"],
                                            call.args[2]["rightShoulder"])
          r == call.result[1]
          report == r[1]
      IN /\ r # Absent
         /\ d <= 2 => report.score = 100 /\ report.warnings = <<>>
         /\ d \in 3..5 => /\ report.score = 90
                          /\ report.title = "diag.shoulder.mild"
                          /\ Len(report.warnings) = 1
                          /\ report.warnings[1].level = "low"
         /\ d > 5 => /\ report.score = (IF 5 * d >= 100 THEN 0 ELSE 100 - 5 * d)
                     /\ Len(report.warnings) = 1
                     /\ report.warnings[1].level =
                          (IF d <= 10 THEN "medium" ELSE "high")
         /\ \A other \in LevelSkeletons :
              calculateHorizontalDeviation(other["leftShoulder"],
                                           other["rightShoulder"]) >= d
                => shoulder_level(other)[1].score <= report.score

\* The shoulder-level test has reported on a deviation of 2 degrees, the
\* last of the band without a finding.
C22_Witness ==
  /\ Returned("analyze")
  /\ call.args[1] = "shoulder_level"
  /\ call.args[2] = Shoulders(60, 2)
  /\ call.result[1][1].details = << <<"detail.shoulder.angle", 2>> >>
  /\ call.result[1][1].score = 100

\* C30: the shoulder tilt does not depend on which shoulder lies further
\* right in the image: for a left and a right shoulder at the same height
\* and at different x the horizontal deviation is 0 and the shoulder-level
\* test scores 100, whether left.x < right.x or left.x > right.x.
C30_TiltIgnoresSide ==
  Returned("analyze") /\ call.args[1] = "shoulder_level"
    /\ {"leftShoulder", "rightShoulder"} \subseteq DOMAIN call.args[2] =>
      LET left == call.args[2]["leftShoulder"]
          right == call.args[2]["rightShoulder"]
      IN left.y = right.y /\ left.x # right.x =>
           /\ calculateHorizontalDeviation(left, right) = 0
           /\ call.result[1] # Absent
           /\ call.result[1][1].score = 100

====
